---- MODULE Spec2Model ----
(***************************************************************************)
(* Model of the spread_macros code generators: the spread-syntax grammar   *)
(* (SpreadModifier, Field, SpreadList, SpreadItem), the generators built   *)
(* on it (anon!, slet!, spread!, fn_struct!, assert_fields_eq!) and the    *)
(* evaluation of the code they generate.                                   *)
(*                                                                         *)
(* A macro invocation is a sequence of tokens (strings).  Parsers are      *)
(* operators from a token sequence to a record [ok, val, rest]; the        *)
(* generators build statements whose expressions are token sequences, as   *)
(* quote! does.                                                            *)
(***************************************************************************)
EXTENDS Naturals, Sequences, FiniteSets, TLC

VARIABLES
    macro,   \* which macro is invoked
    given,   \* what the caller wrote, before it was turned into tokens
    input,   \* the invocation's token stream
    pc,      \* position in the pipeline: parse, expand, run
    ast,     \* the parsed structure (or the parse error)
    code,    \* the generated code
    run      \* what running the generated code did

vars == <<macro, given, input, pc, ast, code, run>>

(***************************************************************************)
(* Tokens                                                                  *)
(***************************************************************************)
Punct == {"{", "}", "(", ")", "[", "]", ",", ":", ";", "..", "&", ">", "+",
          "=", ".", "#", "->", "<", "::"}
Keywords == {"mut", "in", "for", "fn", "self", "let", "struct", "pub", "as"}
Literals == {"1", "2", "5"}

\* syn::Ident::peek_any: any identifier, keywords included
IsIdentAny(t) == t \notin Punct /\ t \notin Literals
\* syn::Ident: an identifier that is not a keyword
IsIdent(t) == IsIdentAny(t) /\ t \notin Keywords

Peek(toks, t) == toks # <<>> /\ Head(toks) = t
PeekIdent(toks) == toks # <<>> /\ IsIdent(Head(toks))
PeekIdentAny(toks) == toks # <<>> /\ IsIdentAny(Head(toks))

\* match on a computed value: the body K reads the value x under one name
With(x, K(_)) == K(x)

Fail(msg, span) == [ok |-> FALSE, val |-> [msg |-> msg, span |-> span], rest |-> <<>>]
Ok(v, rest) == [ok |-> TRUE, val |-> v, rest |-> rest]
\* the span of a lookahead error: the next token, or the end of the input
At(toks) == IF toks = <<>> THEN "end of input" ELSE Head(toks)

MinOf(S) == CHOOSE x \in S : \A y \in S : x <= y
\* how many of toks[from..to] are in the set T
Count(toks, from, to, T) == Cardinality({k \in from..to : toks[k] \in T})

\* Index of the delimiter closing the group that toks[1] opens: the first
\* closer with as many closers as openers up to it; 0 when there is none.
CloseIdx(toks, open, close) ==
    LET js == {j \in 2..Len(toks) :
                  /\ toks[j] = close
                  /\ Count(toks, 1, j, {close}) = Count(toks, 1, j, {open})}
    IN  IF js = {} THEN 0 ELSE MinOf(js)

\* braced!/bracketed!/parenthesized!: the content of the group toks starts
\* with, and what follows the group.
Group(toks, open, close) ==
    IF ~Peek(toks, open) THEN Fail("expected group", At(toks))
    ELSE With(CloseIdx(toks, open, close), LAMBDA j :
             IF j = 0 THEN Fail("unclosed group", open)
             ELSE Ok(SubSeq(toks, 2, j - 1), SubSeq(toks, j + 1, Len(toks))))

\* syn::Expr: an atom (identifier or literal), possibly borrowed.
ParseExpr(toks) ==
    LET afterRef == IF Peek(toks, "&")
                    THEN IF Peek(Tail(toks), "mut") THEN Tail(Tail(toks)) ELSE Tail(toks)
                    ELSE toks
        n == Len(toks) - Len(afterRef)
    IN  IF afterRef # <<>> /\ (IsIdent(Head(afterRef)) \/ Head(afterRef) \in Literals)
        THEN Ok(SubSeq(toks, 1, n + 1), SubSeq(toks, n + 2, Len(toks)))
        ELSE Fail("expected expression", At(afterRef))

(***************************************************************************)
(* SpreadModifier                                                          *)
(***************************************************************************)
NoPath == ""
Mod(kind, path) == [kind |-> kind, path |-> path]
NoMod == Mod("None", NoPath)

SpreadModifier_parse(toks) ==
    IF Peek(toks, "&")
    THEN LET r == Tail(toks)
         IN  IF Peek(r, "mut") THEN Ok(Mod("RefMut", NoPath), Tail(r))
             ELSE IF PeekIdentAny(r) THEN Ok(Mod("Ref", NoPath), r)
             ELSE Fail("expected 'mut' or identifier", At(r))
    ELSE IF Peek(toks, ">") THEN Ok(Mod("Into", NoPath), Tail(toks))
    ELSE IF Peek(toks, "+")
    THEN LET r == Tail(toks)
         IN  IF Peek(r, ">") THEN Ok(Mod("CloneInto", NoPath), Tail(r))
             ELSE IF PeekIdentAny(r) THEN Ok(Mod("Clone", NoPath), r)
             ELSE Fail("expected '>' or identifier", At(r))
    ELSE IF Peek(toks, "[")
    THEN With(Group(toks, "[", "]"), LAMBDA g :
             IF ~g.ok THEN g
             ELSE IF ~(Len(g.val) = 1 /\ IsIdent(g.val[1]))
             THEN Fail("expected path", At(g.val))
             ELSE LET p == g.val[1]
                      r == g.rest
                  IN  IF Peek(r, "&")
                      THEN IF Peek(Tail(r), "mut")
                           THEN Ok(Mod("CustomRefMut", p), Tail(Tail(r)))
                           ELSE IF PeekIdentAny(Tail(r))
                           THEN Ok(Mod("CustomRef", p), Tail(r))
                           ELSE Fail("expected 'mut' or identifier", At(Tail(r)))
                      ELSE Ok(Mod("Custom", p), r))
    ELSE IF PeekIdentAny(toks) THEN Ok(NoMod, toks)
    ELSE Fail("expected one of: '&', '>', '+', square brackets, identifier", At(toks))

(***************************************************************************)
(* Field                                                                   *)
(***************************************************************************)
NoValue == <<>>
MkField(is_mut, modifier, name, value) ==
    [is_mut |-> is_mut, modifier |-> modifier, name |-> name, value |-> value]

Field_parse(toks) ==
    LET is_mut == Peek(toks, "mut")
    IN  With(SpreadModifier_parse(IF is_mut THEN Tail(toks) ELSE toks), LAMBDA m :
            IF ~m.ok THEN m
            ELSE IF ~PeekIdent(m.rest) THEN Fail("expected identifier", At(m.rest))
            ELSE LET name == Head(m.rest)
                     t2 == Tail(m.rest)
                 IN  IF Peek(t2, ":")
                     THEN With(ParseExpr(Tail(t2)), LAMBDA v :
                              IF ~v.ok THEN v
                              ELSE Ok(MkField(is_mut, m.val, name, v.val), v.rest))
                     ELSE Ok(MkField(is_mut, m.val, name, NoValue), t2))

\* Punctuated::<Field, Token![,]>::parse_terminated
RECURSIVE Fields_parse_terminated(_, _)
Fields_parse_terminated(toks, acc) ==
    IF toks = <<>> THEN Ok(acc, <<>>)
    ELSE With(Field_parse(toks), LAMBDA f :
             IF ~f.ok THEN f
             ELSE IF f.rest = <<>> THEN Ok(Append(acc, f.val), <<>>)
             ELSE IF ~Peek(f.rest, ",") THEN Fail("expected ','", At(f.rest))
             ELSE Fields_parse_terminated(Tail(f.rest), Append(acc, f.val)))

(***************************************************************************)
(* SpreadList, SpreadItem                                                  *)
(***************************************************************************)
\* Hygiene of a span: an identifier made with a call-site span is the same
\* name as one the caller wrote; one made with another span is written
\* name#span and is a different name.
CallSite == "call_site"
IdentNew(name, span) == IF span = CallSite THEN name ELSE name \o "#" \o span
\* source.span(): the span of the caller's tokens
SourceSpan == CallSite

NoField == MkField(FALSE, NoMod, "", NoValue)
ItemField(f) ==
    [t |-> "Field", field |-> f, fields_list |-> <<>>, source |-> <<>>, source_ident |-> ""]
ItemSpreadList(fields_list, source, source_ident) ==
    [t |-> "SpreadList", field |-> NoField, fields_list |-> fields_list,
     source |-> source, source_ident |-> source_ident]
ItemFinalSpread(source) ==
    [t |-> "FinalSpread", field |-> NoField, fields_list |-> <<>>, source |-> source,
     source_ident |-> ""]

\* fold(String::from("_"), |buf, field| buf + "_" + field.name)
RECURSIVE SourceIdentName(_, _)
SourceIdentName(fields_list, buf) ==
    IF fields_list = <<>> THEN buf
    ELSE SourceIdentName(Tail(fields_list), buf \o "_" \o Head(fields_list).name)

SourceIdent(fields_list) == IdentNew(SourceIdentName(fields_list, "_"), SourceSpan)

SpreadList_parse(toks) ==
    With(Group(toks, "{", "}"), LAMBDA g :
        IF ~g.ok THEN g
        ELSE With(Fields_parse_terminated(g.val, <<>>), LAMBDA fl :
                 IF ~fl.ok THEN fl
                 ELSE IF ~Peek(g.rest, "in") THEN Fail("expected 'in'", At(g.rest))
                 ELSE With(ParseExpr(Tail(g.rest)), LAMBDA src :
                          IF ~src.ok THEN src
                          ELSE Ok(ItemSpreadList(fl.val, src.val, SourceIdent(fl.val)),
                                  src.rest))))

SpreadItem_parse(toks) ==
    IF Peek(toks, "{") THEN SpreadList_parse(toks)
    ELSE IF Peek(toks, "..")
    THEN With(ParseExpr(Tail(toks)), LAMBDA src :
             IF ~src.ok THEN src ELSE Ok(ItemFinalSpread(src.val), src.rest))
    ELSE With(Field_parse(toks), LAMBDA f :
             IF ~f.ok THEN f ELSE Ok(ItemField(f.val), f.rest))

\* Punctuated::<SpreadItem, Token![,]>::parse_terminated; val is the items
\* and whether the last one is followed by a comma.
RECURSIVE Items_parse_terminated(_, _)
Items_parse_terminated(toks, acc) ==
    IF toks = <<>> THEN Ok(acc, <<>>)
    ELSE With(SpreadItem_parse(toks), LAMBDA it :
             IF ~it.ok THEN it
             ELSE IF it.rest = <<>> THEN Ok(Append(acc, it.val), <<>>)
             ELSE IF ~Peek(it.rest, ",") THEN Fail("expected ','", At(it.rest))
             ELSE Items_parse_terminated(Tail(it.rest), Append(acc, it.val)))

(***************************************************************************)
(* Rendering                                                               *)
(***************************************************************************)
Dot(name) == <<".", name, "(", ")">>

\* a rendering whose CloneInto converts first and duplicates the result
value_with_modifiers_into_first(field, source) ==
    LET m == field.modifier
    IN  CASE m.kind = "Ref" -> <<"&">> \o source
          [] m.kind = "RefMut" -> <<"&", "mut">> \o source
          [] m.kind = "Into" -> source \o Dot("into")
          [] m.kind = "Clone" -> source \o Dot("clone")
          [] m.kind = "CloneInto" -> source \o Dot("into") \o Dot("clone")
          [] m.kind = "Custom" -> <<m.path, "(">> \o source \o <<")">>
          [] m.kind = "CustomRef" -> <<m.path, "(", "&">> \o source \o <<")">>
          [] m.kind = "CustomRefMut" -> <<m.path, "(", "&", "mut">> \o source \o <<")">>
          [] OTHER -> source

\* a rendering whose CustomRef hands the source over by value
value_with_modifiers_by_value(field, source) ==
    LET m == field.modifier
    IN  CASE m.kind = "Ref" -> <<"&">> \o source
          [] m.kind = "RefMut" -> <<"&", "mut">> \o source
          [] m.kind = "Into" -> source \o Dot("into")
          [] m.kind = "Clone" -> source \o Dot("clone")
          [] m.kind = "CloneInto" -> source \o Dot("clone") \o Dot("into")
          [] m.kind = "Custom" -> <<m.path, "(">> \o source \o <<")">>
          [] m.kind = "CustomRef" -> <<m.path, "(">> \o source \o <<")">>
          [] m.kind = "CustomRefMut" -> <<m.path, "(", "&", "mut">> \o source \o <<")">>
          [] OTHER -> source

\* Field::value_with_modifiers
value_with_modifiers(field, source) ==
    LET m == field.modifier
    IN  CASE m.kind = "Ref" -> <<"&">> \o source
          [] m.kind = "RefMut" -> <<"&", "mut">> \o source
          [] m.kind = "Into" -> source \o Dot("into")
          [] m.kind = "Clone" -> source \o Dot("clone")
          [] m.kind = "CloneInto" -> source \o Dot("clone") \o Dot("into")
          [] m.kind = "Custom" -> <<m.path, "(">> \o source \o <<")">>
          [] m.kind = "CustomRef" -> <<m.path, "(", "&">> \o source \o <<")">>
          [] m.kind = "CustomRefMut" -> <<m.path, "(", "&", "mut">> \o source \o <<")">>
          [] OTHER -> source

\* Field::field_expansion: name: value
Field_field_expansion(field, source) ==
    <<field.name, ":">> \o value_with_modifiers(field, source)

\* #( #elems ),*
RECURSIVE JoinComma(_)
JoinComma(elems) ==
    IF elems = <<>> THEN <<>>
    ELSE IF Len(elems) = 1 THEN elems[1]
    ELSE elems[1] \o <<",">> \o JoinComma(Tail(elems))

\* #( #elems , )*  and  #( #elems )*
RECURSIVE EachComma(_)
EachComma(elems) ==
    IF elems = <<>> THEN <<>> ELSE elems[1] \o <<",">> \o EachComma(Tail(elems))

RECURSIVE Concat(_)
Concat(elems) == IF elems = <<>> THEN <<>> ELSE elems[1] \o Concat(Tail(elems))

\* a field expansion that names the source expression in every field
SpreadList_field_expansion_inline(list) ==
    JoinComma([i \in 1..Len(list.fields_list) |->
        Field_field_expansion(list.fields_list[i],
                              list.source \o <<".", list.fields_list[i].name>>)])

\* SpreadList::field_expansion
SpreadList_field_expansion(list) ==
    JoinComma([i \in 1..Len(list.fields_list) |->
        Field_field_expansion(list.fields_list[i],
                              <<list.source_ident, ".", list.fields_list[i].name>>)])

\* a multi-binding expansion that binds a member written with a value to
\* that value
SpreadList_let_expansion_valued(list) ==
    LET fl == list.fields_list
        fields == [i \in 1..Len(fl) |->
                     value_with_modifiers(fl[i],
                         IF fl[i].value # NoValue THEN fl[i].value
                         ELSE <<"__source", ".", fl[i].name>>)]
        pats == [i \in 1..Len(fl) |->
                     (IF fl[i].is_mut THEN <<"mut">> ELSE <<>>) \o <<fl[i].name>>]
    IN  <<"let", "(">> \o EachComma(pats) \o <<")", "=", "{">>
        \o <<"let", "__source", "=">> \o list.source \o <<";">>
        \o <<"(">> \o EachComma(fields) \o <<")">>
        \o <<"}", ";">>

\* SpreadList::let_expansion
SpreadList_let_expansion(list) ==
    LET fl == list.fields_list
        fields == [i \in 1..Len(fl) |->
                     value_with_modifiers(fl[i], <<"__source", ".", fl[i].name>>)]
        pats == [i \in 1..Len(fl) |->
                     (IF fl[i].is_mut THEN <<"mut">> ELSE <<>>) \o <<fl[i].name>>]
    IN  <<"let", "(">> \o EachComma(pats) \o <<")", "=", "{">>
        \o <<"let", "__source", "=">> \o list.source \o <<";">>
        \o <<"(">> \o EachComma(fields) \o <<")">>
        \o <<"}", ";">>

CompileError(msg) == <<"compile_error", "!", "{", msg, "}">>

\* a field expansion that always reads the variable named like the field
SpreadItem_field_expansion_named(item) ==
    CASE item.t = "Field" -> Field_field_expansion(item.field, <<item.field.name>>)
      [] item.t = "SpreadList" -> SpreadList_field_expansion(item)
      [] OTHER -> <<"..">> \o item.source

\* SpreadItem::field_expansion
SpreadItem_field_expansion(item) ==
    CASE item.t = "Field" ->
            IF item.field.value # NoValue
            THEN Field_field_expansion(item.field, item.field.value)
            ELSE Field_field_expansion(item.field, <<item.field.name>>)
      [] item.t = "SpreadList" -> SpreadList_field_expansion(item)
      [] OTHER -> <<"..">> \o item.source

\* a let expansion whose bindings are never mutable
SpreadItem_let_expansion_immutable(item) ==
    CASE item.t = "Field" ->
            <<"let", item.field.name, "=">>
            \o (IF item.field.value # NoValue
                THEN value_with_modifiers(item.field, item.field.value)
                ELSE value_with_modifiers(item.field, <<item.field.name>>))
            \o <<";">>
      [] item.t = "SpreadList" -> SpreadList_let_expansion(item)
      [] OTHER -> CompileError("'..remaining' is not allowed in this macro")

\* SpreadItem::let_expansion
SpreadItem_let_expansion(item) ==
    CASE item.t = "Field" ->
            <<"let">> \o (IF item.field.is_mut THEN <<"mut">> ELSE <<>>)
            \o <<item.field.name, "=">>
            \o (IF item.field.value # NoValue
                THEN value_with_modifiers(item.field, item.field.value)
                ELSE value_with_modifiers(item.field, <<item.field.name>>))
            \o <<";">>
      [] item.t = "SpreadList" -> SpreadList_let_expansion(item)
      [] OTHER -> CompileError("'..remaining' is not allowed in this macro")

(***************************************************************************)
(* anon!                                                                   *)
(***************************************************************************)
\* items.iter() finds an item that satisfies Test
AnyItem(seq, Test(_)) == \E i \in 1..Len(seq) : Test(seq[i])

\* a test of the items that finds no final spread
IsFinalSpread_never(item) == FALSE

IsFinalSpread(item) == item.t = "FinalSpread"
\* a test of the mut prefix that looks at the top-level fields only
HasMut_top(item) == item.t = "Field" /\ item.field.is_mut

HasMut(item) ==
    \/ item.t = "Field" /\ item.field.is_mut
    \/ item.t = "SpreadList" /\ \E i \in 1..Len(item.fields_list) : item.fields_list[i].is_mut

\* a parse that does not look for a final spread among the items
Anon_parse_any_item(toks) ==
    With(Items_parse_terminated(toks, <<>>), LAMBDA items :
        IF ~items.ok THEN items
        ELSE IF items.val = <<>>
        THEN Fail("Anon struct must have at least one field", CallSite)
        ELSE IF AnyItem(items.val, HasMut)
        THEN Fail("'mut' prefix is not allowed in this macro", "mut")
        ELSE Ok(items.val, <<>>))

\* impl Parse for Anon
Anon_parse(toks) ==
    With(Items_parse_terminated(toks, <<>>), LAMBDA items :
        IF ~items.ok THEN items
        ELSE IF items.val = <<>>
        THEN Fail("Anon struct must have at least one field", CallSite)
        ELSE IF AnyItem(items.val, IsFinalSpread)
        THEN Fail("'..remaining' is not allowed in this macro", "..")
        ELSE IF AnyItem(items.val, HasMut)
        THEN Fail("'mut' prefix is not allowed in this macro", "mut")
        ELSE Ok(items.val, <<>>))

Panic(msg) == <<"panicked", msg>>

\* a loop that pushes one name per item: the first of a spread-list
ItemFieldNames_per_item(item) ==
    CASE item.t = "Field" -> <<item.field.name>>
      [] item.t = "SpreadList" /\ item.fields_list # <<>> -> <<item.fields_list[1].name>>
      [] OTHER -> <<>>

\* the names pushed for one item in Anon::expand's loop
ItemFieldNames(item) ==
    CASE item.t = "Field" -> <<item.field.name>>
      [] item.t = "SpreadList" ->
            [i \in 1..Len(item.fields_list) |-> item.fields_list[i].name]
      [] OTHER -> <<>>

TypeParam(i) == "T" \o ToString(i)
DeriveAnon == "#[derive(Copy, Clone, Debug, PartialEq, Eq)]"

\* the bindings of the sources in the reverse of the input order
LetSources_reversed(items) ==
    Concat([i \in 1..Len(items) |->
        IF items[Len(items) + 1 - i].t = "SpreadList"
        THEN <<"let", items[Len(items) + 1 - i].source_ident, "=">>
             \o items[Len(items) + 1 - i].source \o <<";">>
        ELSE <<>>])

\* let #source_ident = #source;  for each SpreadList item
LetSources(items) ==
    Concat([i \in 1..Len(items) |->
        IF items[i].t = "SpreadList"
        THEN <<"let", items[i].source_ident, "=">> \o items[i].source \o <<";">>
        ELSE <<>>])

\* Anon::expand
Anon_expand(items) ==
    IF AnyItem(items, IsFinalSpread)
    THEN Panic("FinalSpread is not allowed in anon!")
    ELSE LET fields_name == Concat([i \in 1..Len(items) |-> ItemFieldNames(items[i])])
             n == Len(fields_name)
             fields_type == [i \in 1..n |-> TypeParam(i - 1)]
         IN  <<"{", DeriveAnon, "struct", "Anon", "<">>
             \o JoinComma([i \in 1..n |-> <<fields_type[i]>>])
             \o <<">", "{">>
             \o JoinComma([i \in 1..n |-> <<fields_name[i], ":", fields_type[i]>>])
             \o <<"}">>
             \o LetSources(items)
             \o <<"Anon", "{">>
             \o JoinComma([i \in 1..Len(items) |-> SpreadItem_field_expansion(items[i])])
             \o <<"}", "}">>

\* what a macro function returns: the parse result and the emitted tokens
Expansion(parsed, tokens) == [parsed |-> parsed, tokens |-> tokens]

\* pub fn anon
anon(toks) ==
    With(Anon_parse(toks), LAMBDA parsed :
        IF ~parsed.ok THEN Expansion(parsed, CompileError(parsed.val.msg))
        ELSE Expansion(parsed, Anon_expand(parsed.val)))

(***************************************************************************)
(* slet!                                                                   *)
(***************************************************************************)
\* impl Parse for SLet
SLet_parse(toks) ==
    With(Group(toks, "{", "}"), LAMBDA g :
        IF ~g.ok THEN g
        ELSE With(Items_parse_terminated(g.val, <<>>), LAMBDA items :
                 IF ~items.ok THEN items
                 ELSE IF items.val = <<>>
                 THEN Fail("Anon struct must have at least one field", "{}")
                 ELSE IF AnyItem(items.val, IsFinalSpread)
                 THEN Fail("'..remaining' is not allowed in this macro", "..")
                 ELSE IF g.rest # <<>> THEN Fail("unexpected token", At(g.rest))
                 ELSE Ok(items.val, <<>>)))

\* a slet! whose parse lets the final spread through, so that the error is
\* raised by the let expansion of that item, between the other bindings
slet_late(toks) ==
    With(Group(toks, "{", "}"), LAMBDA g :
    With(Items_parse_terminated(g.val, <<>>), LAMBDA items :
        IF ~g.ok \/ ~items.ok \/ items.val = <<>> \/ g.rest # <<>>
        THEN Expansion(Fail("unexpected token", At(toks)), CompileError("unexpected token"))
        ELSE Expansion(items,
                 Concat([i \in 1..Len(items.val) |-> SpreadItem_let_expansion(items.val[i])]))))

\* pub fn slet
slet(toks) ==
    With(SLet_parse(toks), LAMBDA parsed :
        IF ~parsed.ok THEN Expansion(parsed, CompileError(parsed.val.msg))
        ELSE Expansion(parsed,
                 Concat([i \in 1..Len(parsed.val) |-> SpreadItem_let_expansion(parsed.val[i])])))

(***************************************************************************)
(* spread! (macro_rules): spread_inner                                     *)
(***************************************************************************)
\* the hygiene of the identifiers paste! makes inside the macro's body
DefSite == "m"
\* paste!'s [< a b >]: the segments glued into one identifier
RECURSIVE Glue(_)
Glue(segments) == IF segments = <<>> THEN "" ELSE Head(segments) \o Glue(Tail(segments))
Paste(segments) == IdentNew(Glue(segments), DefSite)

\* $( #[ $($attr:tt)* ] )?  val: the attribute's tokens, <<>> when absent
MatchAttr(toks) ==
    IF ~Peek(toks, "#") THEN Ok(<<>>, toks)
    ELSE With(Group(Tail(toks), "[", "]"), LAMBDA g :
             IF ~g.ok THEN g ELSE Ok(<<"#", "[">> \o g.val \o <<"]">>, g.rest))

\* $( $field:ident $(: $field_value:expr)? , )*
RECURSIVE MatchTopFields(_, _)
MatchTopFields(toks, acc) ==
    IF ~PeekIdentAny(toks) THEN Ok(acc, toks)
    ELSE With(IF Peek(Tail(toks), ":") THEN ParseExpr(Tail(Tail(toks)))
              ELSE Ok(NoValue, Tail(toks)), LAMBDA v :
             IF ~v.ok THEN v
             ELSE IF ~Peek(v.rest, ",") THEN Fail("no rules expected the token", At(v.rest))
             ELSE MatchTopFields(Tail(v.rest),
                                 Append(acc, [field |-> Head(toks), field_value |-> v.val])))

\* $( $( #[..] )? $spread_field:ident ),+
RECURSIVE MatchSpreadFields(_, _)
MatchSpreadFields(toks, acc) ==
    With(MatchAttr(toks), LAMBDA a :
        IF ~a.ok THEN a
        ELSE IF ~PeekIdentAny(a.rest) THEN Fail("no rules expected the token", At(a.rest))
        ELSE LET one == [attr |-> a.val, spread_field |-> Head(a.rest)]
                 r == Tail(a.rest)
             IN  IF r = <<>> THEN Ok(Append(acc, one), <<>>)
                 ELSE IF ~Peek(r, ",") THEN Fail("no rules expected the token", At(r))
                 ELSE MatchSpreadFields(Tail(r), Append(acc, one)))

\* $( $( #[..] )? { fields } in $spread:expr, )*
RECURSIVE MatchTopSpreads(_, _)
MatchTopSpreads(toks, acc) ==
    IF ~(Peek(toks, "#") \/ Peek(toks, "{")) THEN Ok(acc, toks)
    ELSE With(MatchAttr(toks), LAMBDA a :
         IF ~a.ok THEN a
         ELSE With(Group(a.rest, "{", "}"), LAMBDA g :
              IF ~g.ok THEN g
              ELSE With(MatchSpreadFields(g.val, <<>>), LAMBDA fl :
                   IF ~fl.ok THEN fl
                   ELSE IF ~Peek(g.rest, "in")
                   THEN Fail("no rules expected the token", At(g.rest))
                   ELSE With(ParseExpr(Tail(g.rest)), LAMBDA e :
                        IF ~e.ok THEN e
                        ELSE IF ~Peek(e.rest, ",")
                        THEN Fail("no rules expected the token", At(e.rest))
                        ELSE MatchTopSpreads(Tail(e.rest),
                                 Append(acc, [spread_attr |-> a.val,
                                              fields |-> fl.val,
                                              spread |-> e.val]))))))

\* a remainder matcher that lets a comma follow the expression
MatchRemainder_comma(toks) ==
    IF Peek(toks, "..")
    THEN LET e == ParseExpr(Tail(toks))
         IN  IF e.ok /\ Peek(e.rest, ",") THEN Ok(e.val, Tail(e.rest)) ELSE e
    ELSE Ok(<<>>, toks)

\* $(.. $remainder:expr)?
MatchRemainder(toks) ==
    IF Peek(toks, "..") THEN ParseExpr(Tail(toks)) ELSE Ok(<<>>, toks)

\* the matcher of the top level rule: $name:ident { fields spreads remainder }
MatchTop(args) ==
    IF ~PeekIdentAny(args) THEN Fail("no rules expected the token", At(args))
    ELSE With(Group(Tail(args), "{", "}"), LAMBDA g :
         IF ~g.ok THEN g
         ELSE IF g.rest # <<>> THEN Fail("no rules expected the token", At(g.rest))
         ELSE With(MatchTopFields(g.val, <<>>), LAMBDA fs :
              IF ~fs.ok THEN fs
              ELSE With(MatchTopSpreads(fs.rest, <<>>), LAMBDA sp :
                   IF ~sp.ok THEN sp
                   ELSE With(MatchRemainder(sp.rest), LAMBDA rem :
                        IF ~rem.ok THEN rem
                        ELSE IF rem.rest # <<>>
                        THEN Fail("no rules expected the token", At(rem.rest))
                        ELSE Ok([name |-> Head(args), fields |-> fs.val,
                                 spreads |-> sp.val, remainder |-> rem.val],
                                <<>>)))))

Invoke(args) == <<"spread_inner", "!", "(">> \o args \o <<")">>

\* the transcriber of the top level rule, paste! applied
TranscribeTop(m) ==
    LET fieldCalls == [i \in 1..Len(m.fields) |->
            Invoke(<<"#", "field", Paste(<<"__", m.fields[i].field>>), m.fields[i].field>>
                   \o (IF m.fields[i].field_value = NoValue THEN <<>>
                       ELSE <<":">> \o m.fields[i].field_value))
            \o <<";">>]
        spreadIdent(sp) ==
            Paste(Concat([j \in 1..Len(sp.fields) |-> <<"_", sp.fields[j].spread_field>>]))
        spreadCalls == [i \in 1..Len(m.spreads) |->
            Invoke(<<"#", "spread", "{">> \o m.spreads[i].spread_attr
                   \o <<spreadIdent(m.spreads[i])>> \o m.spreads[i].spread \o <<"}", "{">>
                   \o JoinComma([j \in 1..Len(m.spreads[i].fields) |->
                         m.spreads[i].fields[j].attr
                         \o <<Paste(<<"__", m.spreads[i].fields[j].spread_field>>),
                              m.spreads[i].fields[j].spread_field>>])
                   \o <<"}">>)
            \o <<";">>]
    IN  <<"{">> \o Concat(fieldCalls) \o Concat(spreadCalls)
        \o <<m.name, "{">>
        \o Concat([i \in 1..Len(m.fields) |->
               <<m.fields[i].field, ":", Paste(<<"__", m.fields[i].field>>), ",">>])
        \o Concat([i \in 1..Len(m.spreads) |->
               Concat([j \in 1..Len(m.spreads[i].fields) |->
                   <<m.spreads[i].fields[j].spread_field, ":",
                     Paste(<<"__", m.spreads[i].fields[j].spread_field>>), ",">>])])
        \o (IF m.remainder = <<>> THEN <<>> ELSE <<"..">> \o m.remainder)
        \o <<"}", "}">>

CloneAttr == <<"#", "[", "clone", "]">>
StartsWith(toks, pre) == Len(toks) >= Len(pre) /\ SubSeq(toks, 1, Len(pre)) = pre
Drop(toks, n) == SubSeq(toks, n + 1, Len(toks))
NoRule(toks) == Fail("no rules expected the token", At(toks))

\* (#field $__field:ident $field:ident : $value:expr)  and
\* (#field $__field:ident $field:ident)
RuleField(r) ==
    IF ~(Len(r) >= 2 /\ IsIdentAny(r[1]) /\ IsIdentAny(r[2])) THEN NoRule(r)
    ELSE IF Len(r) = 2 THEN Ok(<<"let", r[1], "=", r[2], ";">>, <<>>)
    ELSE IF r[3] # ":" THEN NoRule(Drop(r, 2))
    ELSE With(ParseExpr(Drop(r, 3)), LAMBDA v :
             IF ~v.ok \/ v.rest # <<>> THEN NoRule(Drop(r, 3))
             ELSE Ok(<<"let", r[1], "=">> \o v.val \o <<";">>, <<>>))

\* (#spread {#[clone] $__spread:ident $spread:expr} { $($tail:tt)* })  and
\* (#spread {$__spread:ident $spread:expr} { $($tail:tt)* })
RuleSpreadSource(r) ==
    With(Group(r, "{", "}"), LAMBDA g :
    With(Group(g.rest, "{", "}"), LAMBDA tail :
    With(StartsWith(g.val, CloneAttr), LAMBDA clone :
    With(IF clone THEN Drop(g.val, 4) ELSE g.val, LAMBDA head :
        IF ~g.ok \/ ~tail.ok THEN NoRule(r)
        ELSE IF tail.rest # <<>> THEN NoRule(tail.rest)
        ELSE IF ~PeekIdentAny(head) THEN NoRule(head)
        ELSE With(ParseExpr(Tail(head)), LAMBDA e :
                 IF ~e.ok \/ e.rest # <<>> THEN NoRule(Tail(head))
                 ELSE Ok(<<"let", Head(head), "=">> \o e.val \o <<";">>
                         \o Invoke(<<"#", "spread">> \o (IF clone THEN CloneAttr ELSE <<>>)
                                   \o <<Head(head), "{">> \o tail.val \o <<"}">>)
                         \o <<";">>,
                         <<>>))))))

\* the tail of  $__field:ident $field:ident $( , $($tail:tt)* )?
FieldsTail(c) == IF Len(c) = 2 THEN <<>> ELSE Drop(c, 3)
TwoIdents(c) ==
    Len(c) >= 2 /\ IsIdentAny(c[1]) /\ IsIdentAny(c[2]) /\ (Len(c) = 2 \/ c[3] = ",")

\* (#spread #[clone] $__spread:ident { })  and
\* (#spread #[clone] $__spread:ident { $__field:ident $field:ident $( , $($tail:tt)* )? })
RuleSpreadCloneAll(r) ==
    With(Drop(r, 4), LAMBDA s :
    With(Group(Tail(s), "{", "}"), LAMBDA g :
        IF ~PeekIdentAny(s) THEN NoRule(s)
        ELSE IF ~g.ok THEN NoRule(Tail(s))
        ELSE IF g.rest # <<>> THEN NoRule(g.rest)
        ELSE IF g.val = <<>> THEN Ok(<<>>, <<>>)
        ELSE IF ~TwoIdents(g.val) THEN NoRule(g.val)
        ELSE Ok(<<"let", g.val[1], "=", Head(s), ".", g.val[2], ".", "clone", "(", ")", ";">>
                \o Invoke(<<"#", "spread">> \o CloneAttr \o <<Head(s), "{">>
                          \o FieldsTail(g.val) \o <<"}">>),
                <<>>)))

\* (#spread $__spread:ident { }),
\* (#spread $__spread:ident { $__field:ident $field:ident $( , $($tail:tt)* )? })  and
\* (#spread $__spread:ident { #[clone] $__field:ident $field:ident $( , $($tail:tt)* )? })
RuleSpreadOne(r) ==
    With(Group(Tail(r), "{", "}"), LAMBDA g :
    With(StartsWith(g.val, CloneAttr), LAMBDA clone :
    With(IF clone THEN Drop(g.val, 4) ELSE g.val, LAMBDA c :
        IF ~g.ok THEN NoRule(Tail(r))
        ELSE IF g.rest # <<>> THEN NoRule(g.rest)
        ELSE IF g.val = <<>> THEN Ok(<<>>, <<>>)
        ELSE IF ~TwoIdents(c) THEN NoRule(c)
        ELSE Ok(<<"let", c[1], "=", Head(r), ".", c[2]>>
                \o (IF clone THEN <<".", "clone", "(", ")">> ELSE <<>>) \o <<";">>
                \o Invoke(<<"#", "spread", Head(r), "{">> \o FieldsTail(c) \o <<"}">>),
                <<>>))))

\* macro_rules! spread_inner: the rules tried in order on the arguments
spread_inner(args) ==
    IF PeekIdentAny(args)
    THEN With(MatchTop(args), LAMBDA m : IF m.ok THEN Ok(TranscribeTop(m.val), <<>>) ELSE m)
    ELSE IF StartsWith(args, <<"#", "field">>) THEN RuleField(Drop(args, 2))
    ELSE IF StartsWith(args, <<"#", "spread", "{">>) THEN RuleSpreadSource(Drop(args, 2))
    ELSE IF StartsWith(args, <<"#", "spread">> \o CloneAttr) THEN RuleSpreadCloneAll(Drop(args, 2))
    ELSE IF StartsWith(args, <<"#", "spread">>) /\ PeekIdentAny(Drop(args, 2))
    THEN RuleSpreadOne(Drop(args, 2))
    ELSE NoRule(args)

\* index of the first pending spread_inner! invocation in code, 0 if none
FirstInvocation(c) ==
    LET is == {i \in 1..Len(c) : c[i] = "spread_inner"}
    IN  IF is = {} THEN 0 ELSE MinOf(is)

\* one macro expansion step: the first pending invocation is replaced by what
\* its rule transcribes, or the expansion fails
ExpandFirst(c) ==
    With(FirstInvocation(c), LAMBDA i :
    With(Group(Drop(c, i + 1), "(", ")"), LAMBDA g :
    With(spread_inner(g.val), LAMBDA r :
        IF r.ok THEN [ok |-> TRUE, code |-> SubSeq(c, 1, i - 1) \o r.val \o g.rest,
                      err |-> r.val]
        ELSE [ok |-> FALSE, code |-> CompileError(r.val.msg), err |-> r.val])))

(***************************************************************************)
(* assert_fields_eq!                                                       *)
(***************************************************************************)
AllowAttr == "#[allow(non_camel_case_types)]"
DeriveDebugEq == "#[derive(Debug, PartialEq, Eq)]"

\* Punctuated::<syn::Ident, Token![,]>::parse_terminated
RECURSIVE Idents_parse_terminated(_, _)
Idents_parse_terminated(toks, acc) ==
    IF toks = <<>> THEN Ok(acc, <<>>)
    ELSE IF ~PeekIdent(toks) THEN Fail("expected identifier", At(toks))
    ELSE IF Tail(toks) = <<>> THEN Ok(Append(acc, Head(toks)), <<>>)
    ELSE IF ~Peek(Tail(toks), ",") THEN Fail("expected ','", At(Tail(toks)))
    ELSE Idents_parse_terminated(Tail(Tail(toks)), Append(acc, Head(toks)))

AssertList(left, right, fields, fmt_args) ==
    [t |-> "List", left |-> left, right |-> right, fields |-> fields, anon |-> <<>>,
     fmt_args |-> fmt_args]
AssertAnon(left, anon_items, fmt_args) ==
    [t |-> "Anon", left |-> left, right |-> <<>>, fields |-> <<>>, anon |-> anon_items,
     fmt_args |-> fmt_args]

\* a test of the parsed list that finds no list empty
FieldsIsEmpty_never(fields) == FALSE

\* fields.is_empty(), of the list parsed between the brackets
FieldsIsEmpty(fields) == fields = <<>>

\* impl Parse for AssertFieldsEq
AssertFieldsEq_parse(toks) ==
    With(ParseExpr(toks), LAMBDA left :
        IF ~left.ok THEN left
        ELSE IF ~Peek(left.rest, ",") THEN Fail("expected ','", At(left.rest))
        ELSE With(Tail(left.rest), LAMBDA second :
             IF Peek(second, "{")
             THEN With(Group(second, "{", "}"), LAMBDA braced :
                  With(Anon_parse(braced.val), LAMBDA parsed :
                      IF ~braced.ok THEN braced
                      ELSE IF ~parsed.ok THEN parsed
                      ELSE Ok(AssertAnon(left.val, parsed.val, braced.rest), <<>>)))
             ELSE IF PeekIdent(second)
             THEN With(ParseExpr(second), LAMBDA right :
                  With(Group(Tail(right.rest), "[", "]"), LAMBDA bracketed :
                  With(Idents_parse_terminated(bracketed.val, <<>>), LAMBDA fields :
                      IF ~right.ok THEN right
                      ELSE IF ~Peek(right.rest, ",")
                      THEN Fail("expected ','", At(right.rest))
                      ELSE IF ~bracketed.ok THEN bracketed
                      ELSE IF ~fields.ok THEN fields
                      ELSE IF FieldsIsEmpty(fields.val)
                      THEN Fail("'Fields list cannot be empty", "[]")
                      ELSE Ok(AssertList(left.val, right.val, fields.val,
                                         bracketed.rest), <<>>))))
             ELSE Fail("expected one of: curly braces, identifier", At(second))))

\* struct Fields<'a, f, ..> { f: &'a f, .. }
FieldsStruct(fields) ==
    <<AllowAttr, DeriveDebugEq, "struct", "Fields", "<", "'a", ",">>
    \o EachComma([i \in 1..Len(fields) |-> <<fields[i]>>])
    \o <<">", "{">>
    \o EachComma([i \in 1..Len(fields) |-> <<fields[i], ":", "&", "'a", fields[i]>>])
    \o <<"}">>

\* let v = Fields { f: &(v.f), .. };  with Sep either EachComma or JoinComma
FieldsOf(v, fields, Sep(_)) ==
    <<"let", v, "=", "Fields", "{">>
    \o Sep([i \in 1..Len(fields) |-> <<fields[i], ":", "&", "(", v, ".", fields[i], ")">>])
    \o <<"}", ";">>

\* a List arm that compares the two values whole
AssertList_expand_whole(e) ==
    <<"{", "let", "left", "=", "&">> \o e.left \o <<";">>
    \o <<"let", "right", "=", "&">> \o e.right \o <<";">>
    \o <<"assert_eq", "!", "(", "left", ",", "right">> \o e.fmt_args \o <<")", ";", "}">>

\* a List arm that names the two expressions in every field it compares
AssertList_expand_inline(e) ==
    <<"{">> \o FieldsStruct(e.fields)
    \o <<"let", "left", "=", "Fields", "{">>
    \o EachComma([i \in 1..Len(e.fields) |->
           <<e.fields[i], ":", "&", "(">> \o e.left \o <<".", e.fields[i], ")">>])
    \o <<"}", ";">>
    \o <<"let", "right", "=", "Fields", "{">>
    \o EachComma([i \in 1..Len(e.fields) |->
           <<e.fields[i], ":", "&", "(">> \o e.right \o <<".", e.fields[i], ")">>])
    \o <<"}", ";">>
    \o <<"assert_eq", "!", "(", "left", ",", "right">> \o e.fmt_args \o <<")", ";", "}">>

\* the quote! of the List arm
AssertList_expand(e) ==
    <<"{">> \o FieldsStruct(e.fields)
    \o <<"let", "left", "=", "&">> \o e.left \o <<";">>
    \o FieldsOf("left", e.fields, EachComma)
    \o <<"let", "right", "=", "&">> \o e.right \o <<";">>
    \o FieldsOf("right", e.fields, EachComma)
    \o <<"assert_eq", "!", "(", "left", ",", "right">> \o e.fmt_args \o <<")", ";", "}">>

\* the quote! of the Anon arm
AssertAnon_expand(e) ==
    With(Concat([i \in 1..Len(e.anon) |-> ItemFieldNames(e.anon[i])]), LAMBDA fields :
        \* the loop over anon.items meets a FinalSpread
        IF AnyItem(e.anon, IsFinalSpread)
        THEN Panic("FinalSpread is not allowed in anon!")
        ELSE
        <<"{", "let", "right", "=">> \o Anon_expand(e.anon) \o <<";">>
        \o FieldsStruct(fields)
        \o <<"let", "left", "=", "&">> \o e.left \o <<";">>
        \o FieldsOf("left", fields, EachComma)
        \o <<"let", "right", "=", "&", "right", ";">>
        \o FieldsOf("right", fields, EachComma)
        \o <<"assert_eq", "!", "(", "left", ",", "right">> \o e.fmt_args \o <<")", ";", "}">>)

\* pub fn assert_fields_eq
assert_fields_eq(toks) ==
    With(AssertFieldsEq_parse(toks), LAMBDA parsed :
        IF ~parsed.ok THEN Expansion(parsed, CompileError(parsed.val.msg))
        ELSE IF parsed.val.t = "List" THEN Expansion(parsed, AssertList_expand(parsed.val))
        ELSE Expansion(parsed, AssertAnon_expand(parsed.val)))

\* macro_rules! assert_fields_eq_inner, list syntax:
\*   $left:expr, $right:expr, [$($field:ident),+ $(,)?] $(, $($arg:tt)*)?
MatchListSyntax(toks) ==
    With(ParseExpr(toks), LAMBDA left :
    With(ParseExpr(Tail(left.rest)), LAMBDA right :
    With(Group(Tail(right.rest), "[", "]"), LAMBDA bracketed :
    With(Idents_parse_terminated(bracketed.val, <<>>), LAMBDA fields :
        IF ~left.ok \/ ~Peek(left.rest, ",") THEN Fail("no rules expected the token", At(left.rest))
        ELSE IF ~right.ok \/ ~Peek(right.rest, ",")
        THEN Fail("no rules expected the token", At(right.rest))
        ELSE IF ~bracketed.ok \/ ~fields.ok \/ fields.val = <<>>
        THEN Fail("no rules expected the token", At(Tail(right.rest)))
        ELSE IF bracketed.rest # <<>> /\ ~Peek(bracketed.rest, ",")
        THEN Fail("no rules expected the token", At(bracketed.rest))
        ELSE Ok(AssertList(left.val, right.val, fields.val, bracketed.rest), <<>>)))))

\* the transcription of the list syntax rule; left and right are the macro's
\* own identifiers
assert_fields_eq_inner(toks) ==
    LET left == IdentNew("left", DefSite)
        right == IdentNew("right", DefSite)
    IN  With(MatchListSyntax(toks), LAMBDA m :
            IF ~m.ok THEN Expansion(m, CompileError(m.val.msg))
            ELSE Expansion(m,
                    <<"{">> \o FieldsStruct(m.val.fields)
                    \o <<"let", left, "=", "&">> \o m.val.left \o <<";">>
                    \o FieldsOf(left, m.val.fields, JoinComma)
                    \o <<"let", right, "=", "&">> \o m.val.right \o <<";">>
                    \o FieldsOf(right, m.val.fields, JoinComma)
                    \o <<"assert_eq", "!", "(", left, ",", right>> \o m.val.fmt_args
                    \o <<")", ";", "}">>))

(***************************************************************************)
(* fn_struct!                                                              *)
(***************************************************************************)
IsAttr(t) == t \in {"#[derive(Debug)]", "#[derive(Clone)]"}
NoType == <<>>
MkTypedField(modifier, name, type_, value) ==
    [modifier |-> modifier, name |-> name, type_ |-> type_, value |-> value]

\* syn::Type: a named type, possibly behind a reference
ParseType(toks) ==
    LET afterRef == IF Peek(toks, "&") THEN Tail(toks) ELSE toks
        n == Len(toks) - Len(afterRef)
    IN  IF PeekIdent(afterRef)
        THEN Ok(SubSeq(toks, 1, n + 1), SubSeq(toks, n + 2, Len(toks)))
        ELSE Fail("expected type", At(afterRef))

\* impl Parse for TypedField
TypedField_parse(toks) ==
    With(SpreadModifier_parse(toks), LAMBDA modifier :
        IF ~modifier.ok THEN modifier
        ELSE IF ~PeekIdentAny(modifier.rest)
        THEN Fail("expected identifier", At(modifier.rest))
        ELSE LET name == Head(modifier.rest)
                 r == Tail(modifier.rest)
             IN  IF name = "self"
                 THEN IF modifier.val.kind \in {"Into", "Clone", "CloneInto"}
                      THEN Fail("only '&', '&mut' or no modifier is allows before 'self'",
                                name)
                      ELSE Ok(MkTypedField(modifier.val, name, NoType, NoValue), r)
                 ELSE IF ~Peek(r, ":") THEN Fail("expected ':'", At(r))
                 ELSE With(ParseType(Tail(r)), LAMBDA type_ :
                          IF ~type_.ok THEN type_
                          ELSE IF Peek(type_.rest, "=")
                          THEN With(ParseExpr(Tail(type_.rest)), LAMBDA value :
                                   IF ~value.ok THEN value
                                   ELSE Ok(MkTypedField(modifier.val, name, type_.val,
                                                        value.val), value.rest))
                          ELSE Ok(MkTypedField(modifier.val, name, type_.val, NoValue),
                                  type_.rest)))

\* Punctuated::<TypedField, Token![,]>::parse_terminated
RECURSIVE TypedFields_parse_terminated(_, _)
TypedFields_parse_terminated(toks, acc) ==
    IF toks = <<>> THEN Ok(acc, <<>>)
    ELSE With(TypedField_parse(toks), LAMBDA f :
             IF ~f.ok THEN f
             ELSE IF f.rest = <<>> THEN Ok(Append(acc, f.val), <<>>)
             ELSE IF ~Peek(f.rest, ",") THEN Fail("expected ','", At(f.rest))
             ELSE TypedFields_parse_terminated(Tail(f.rest), Append(acc, f.val)))

\* syn::ExprPath without generic arguments: ident (:: ident)*, as the list of
\* its segments
RECURSIVE ParsePath(_, _)
ParsePath(toks, acc) ==
    IF ~PeekIdent(toks) THEN Fail("expected identifier", At(toks))
    ELSE IF Peek(Tail(toks), "::")
    THEN ParsePath(Tail(Tail(toks)), Append(acc, Head(toks)))
    ELSE Ok(Append(acc, Head(toks)), Tail(toks))

\* index of the first t in toks; 0 if none
IndexOf(toks, t) ==
    With({i \in 1..Len(toks) : toks[i] = t}, LAMBDA is : IF is = {} THEN 0 ELSE MinOf(is))

\* no qualified self type
NoQSelf == [ty |-> NoType, position |-> 0]

\* syn::ExprPath: a path, or a qualified path <ty>::path or
\* <ty as trait path>::path, as its qself (the type, and the number of
\* segments of the path inside the angle brackets) and all its segments
ParseExprPath(toks) ==
    IF ~Peek(toks, "<")
    THEN With(ParsePath(toks, <<>>), LAMBDA p :
             IF ~p.ok THEN p ELSE Ok([qself |-> NoQSelf, segments |-> p.val], p.rest))
    ELSE With(IndexOf(toks, ">"), LAMBDA gt :
         With(SubSeq(toks, 2, gt - 1), LAMBDA inner :
         With(IndexOf(inner, "as"), LAMBDA as :
         With(IF as = 0 THEN inner ELSE SubSeq(inner, 1, as - 1), LAMBDA ty :
         With(IF as = 0 THEN Ok(<<>>, <<>>) ELSE ParsePath(Drop(inner, as), <<>>), LAMBDA tr :
             IF gt = 0 THEN Fail("expected '>'", CallSite)
             ELSE IF ty = <<>> THEN Fail("expected type", At(Tail(toks)))
             ELSE IF ~tr.ok THEN tr
             ELSE IF tr.rest # <<>> THEN Fail("expected '>'", At(tr.rest))
             ELSE IF ~Peek(Drop(toks, gt), "::") THEN Fail("expected '::'", At(Drop(toks, gt)))
             ELSE With(ParsePath(Drop(toks, gt + 1), tr.val), LAMBDA p :
                      IF ~p.ok THEN p
                      ELSE Ok([qself |-> [ty |-> ty, position |-> Len(tr.val)],
                               segments |-> p.val], p.rest)))))))

\* the number of fields with a value
HaveValueCount(fields) ==
    Cardinality({i \in 1..Len(fields) : fields[i].value # NoValue})

\* a check of the values that lets any mix of fields through
ValuesConsistent_any(fields) == TRUE

\* Fields should either all have values or none:
\* !(have_value_count != 0 && have_value_count != fields.len())
ValuesConsistent(fields) ==
    ~(HaveValueCount(fields) # 0 /\ HaveValueCount(fields) # Len(fields))

\* a check of the fields after the first that lets every receiver through
ForbidOtherSelf_none(fields) == FALSE

\* Forbid other self: a field after the extracted receiver without a type
ForbidOtherSelf(fields) == \E i \in 1..Len(fields) : fields[i].type_ = NoType

\* a Default decision that asks for one field with a value less
ImplDefault_more(fields) == HaveValueCount(fields) > 1

\* impl_default: have_value_count > 0
ImplDefault(fields) == HaveValueCount(fields) > 0

\* impl Parse for FnStruct; generics and where clauses are not modelled
FnStruct_parse(toks) ==
    \* syn::Attribute::parse_outer: the attributes the input starts with
    With(SubSeq(toks, 1, IF \A i \in 1..Len(toks) : IsAttr(toks[i]) THEN Len(toks)
                         ELSE MinOf({i \in 1..Len(toks) : ~IsAttr(toks[i])}) - 1),
         LAMBDA attrs :
    With(Drop(toks, Len(attrs)), LAMBDA afterAttr :
    With(IF Peek(afterAttr, "pub") THEN <<"pub">> ELSE <<>>, LAMBDA vis :
    With(Drop(afterAttr, Len(vis)), LAMBDA afterVis :
    With(IF Peek(afterVis, "&") THEN <<"&">> ELSE <<>>, LAMBDA call_by_ref :
    With(Drop(afterVis, Len(call_by_ref)), LAMBDA afterRef :
        IF ~PeekIdent(afterRef) THEN Fail("expected identifier", At(afterRef))
        ELSE IF ~Peek(Tail(afterRef), "for") THEN Fail("expected 'for'", At(Tail(afterRef)))
        ELSE IF ~Peek(Drop(afterRef, 2), "fn") THEN Fail("expected 'fn'", At(Drop(afterRef, 2)))
        ELSE With(ParseExprPath(Drop(afterRef, 3)), LAMBDA fn_path :
             With(Group(fn_path.rest, "(", ")"), LAMBDA paren :
             With(IF Peek(paren.rest, "->") THEN ParseType(Tail(paren.rest))
                  ELSE Ok(NoType, paren.rest), LAMBDA return_type :
             With(TypedFields_parse_terminated(paren.val, <<>>), LAMBDA parsed :
             \* Extract initial self if any.
             With(parsed.val # <<>> /\ parsed.val[1].type_ = NoType, LAMBDA hasSelf :
             With(IF hasSelf THEN Tail(parsed.val) ELSE parsed.val, LAMBDA fields :
                 IF ~fn_path.ok THEN fn_path
                 ELSE IF ~paren.ok THEN paren
                 ELSE IF ~return_type.ok THEN return_type
                 ELSE IF ~parsed.ok THEN parsed
                 ELSE IF ForbidOtherSelf(fields)
                 THEN Fail("'self' is only allowed once in first position", "self")
                 ELSE IF ~ValuesConsistent(fields)
                 THEN Fail("Fields must either all have values ('= value') or none have",
                           CallSite)
                 ELSE IF return_type.rest # <<>>
                 THEN Fail("unexpected token", At(return_type.rest))
                 ELSE Ok([struct_attr |-> attrs, vis |-> vis, call_by_ref |-> call_by_ref,
                          struct_name |-> Head(afterRef),
                          fn_path |-> fn_path.val.segments, qself |-> fn_path.val.qself,
                          fields |-> fields, return_type |-> return_type.val,
                          has_self |-> hasSelf,
                          self_ |-> IF hasSelf THEN parsed.val[1]
                                    ELSE MkTypedField(NoMod, "", NoType, NoValue),
                          impl_default |-> ImplDefault(fields)], <<>>)))))))))))))

\* segments joined by ::
RECURSIVE JoinPath(_)
JoinPath(segments) ==
    IF segments = <<>> THEN <<>>
    ELSE IF Len(segments) = 1 THEN <<segments[1]>>
    ELSE <<segments[1], "::">> \o JoinPath(Tail(segments))

\* #fn_path: the path as written, its qualified self type in angle brackets
PrintPath(qself, segments) ==
    IF qself.ty = NoType THEN JoinPath(segments)
    ELSE <<"<">> \o qself.ty
         \o (IF qself.position > 0
             THEN <<"as">> \o JoinPath(SubSeq(segments, 1, qself.position)) ELSE <<>>)
         \o <<">", "::">> \o JoinPath(SubSeq(segments, qself.position + 1, Len(segments)))

\* a receiver type that is always the path without its last segment
SelfType_segments(s) == JoinPath(SubSeq(s.fn_path, 1, Len(s.fn_path) - 1))

\* the type of the receiver: the self type of a qualified path, or else the
\* path without its last segment, the method
SelfType(s) ==
    IF s.qself.ty # NoType THEN s.qself.ty
    ELSE JoinPath(SubSeq(s.fn_path, 1, Len(s.fn_path) - 1))

DefaultTrait == <<"::", "core", "::", "default", "::", "Default">>

\* the Default implementation of fn_struct
FnStruct_impl_default(s) ==
    IF s.impl_default
    THEN <<"impl">> \o DefaultTrait \o <<"for", s.struct_name, "{">>
         \o <<"fn", "default", "(", ")", "->", "Self", "{", "Self", "{">>
         \o JoinComma([i \in 1..Len(s.fields) |->
                          <<s.fields[i].name, ":">> \o s.fields[i].value])
         \o <<"}", "}", "}">>
    ELSE <<>>

\* a struct that stores the receiver before the fields
StructFields_with_receiver(s) ==
    JoinComma((IF s.has_self THEN <<<<"__self", ":", "Self">>>> ELSE <<>>)
              \o [i \in 1..Len(s.fields) |-> <<s.fields[i].name, ":">> \o s.fields[i].type_])

\* the fields of the struct: #( #fields_name: #fields_type ),*
StructFields(s) ==
    JoinComma([i \in 1..Len(s.fields) |-> <<s.fields[i].name, ":">> \o s.fields[i].type_])

\* arguments that pass the receiver after the fields
CallArgs_receiver_last(s) ==
    JoinComma([i \in 1..Len(s.fields) |->
                  value_with_modifiers(
                      MkField(FALSE, s.fields[i].modifier, s.fields[i].name,
                              s.fields[i].value),
                      <<"self", ".", s.fields[i].name>>)]
              \o (IF s.has_self THEN <<<<"__self">>>> ELSE <<>>))

\* the arguments of the call: #self_out_arg #( #fields_value ),*  where
\* fields_value is value_with_modifiers over self.name and self_out_arg is
\* __self, when there is a receiver
CallArgs(s) ==
    (IF s.has_self THEN <<"__self", ",">> ELSE <<>>)
    \o JoinComma([i \in 1..Len(s.fields) |->
                     value_with_modifiers(
                         MkField(FALSE, s.fields[i].modifier, s.fields[i].name,
                                 s.fields[i].value),
                         <<"self", ".", s.fields[i].name>>)])

\* pub fn fn_struct, after the parse
FnStruct_expand(s) ==
    LET return_type == IF s.return_type # NoType THEN <<"->">> \o s.return_type
                       ELSE <<"->", "(", ")">>
        kind == s.self_.modifier.kind
        selfOk == kind \in {"None", "Ref", "RefMut"}
        modifier == CASE kind = "Ref" -> <<"&">>
                      [] kind = "RefMut" -> <<"&", "mut">>
                      [] OTHER -> <<>>
        self_type == SelfType(s)
        self_in_arg == IF s.has_self THEN <<"__self", ":">> \o modifier \o self_type \o <<",">>
                       ELSE <<>>
    IN  IF s.has_self /\ ~selfOk
        THEN CompileError("only '&', '&mut' or no modifier is allows before 'self'")
        \* self_type.path.segments.pop().is_none(): the path has no segment
        ELSE IF s.has_self /\ s.fn_path = <<>>
        THEN CompileError("Cannot use 'self' with a function that is not a method")
        ELSE s.struct_attr \o s.vis \o <<"struct", s.struct_name, "{">>
             \o StructFields(s)
             \o <<"}">>
             \o FnStruct_impl_default(s)
             \o <<"impl", s.struct_name, "{", "pub", "fn", "call", "(">>
             \o s.call_by_ref \o <<"self", ",">> \o self_in_arg \o <<")">>
             \o return_type \o <<"{">>
             \o PrintPath(s.qself, s.fn_path) \o <<"(">> \o CallArgs(s)
             \o <<")", "}", "}">>

\* pub fn fn_struct
fn_struct(toks) ==
    With(FnStruct_parse(toks), LAMBDA parsed :
        IF ~parsed.ok THEN Expansion(parsed, CompileError(parsed.val.msg))
        ELSE Expansion(parsed, FnStruct_expand(parsed.val)))

(***************************************************************************)
(* Running the generated code: the statements and expressions the macros   *)
(* emit, evaluated in order.                                               *)
(***************************************************************************)
Openers == {"(", "{", "["}
Closers == {")", "}", "]"}

\* index of the first t outside every group of toks; 0 if none
FindTop(toks, t) ==
    With({i \in 1..Len(toks) :
             /\ toks[i] = t
             /\ Count(toks, 1, i - 1, Openers) = Count(toks, 1, i - 1, Closers)},
         LAMBDA is : IF is = {} THEN 0 ELSE MinOf(is))

\* toks cut at every comma of nesting depth 0
RECURSIVE SplitTop(_)
SplitTop(toks) ==
    With(FindTop(toks, ","), LAMBDA i :
        IF i = 0 THEN <<toks>>
        ELSE <<SubSeq(toks, 1, i - 1)>> \o SplitTop(Drop(toks, i)))

\* the innermost binding of an identifier, or the caller's own variable
RECURSIVE Lookup(_, _, _)
Lookup(env, tok, i) ==
    IF i = 0 THEN [kind |-> "outer", of |-> <<tok>>]
    ELSE IF env[i].name = tok THEN env[i].den
    ELSE Lookup(env, tok, i - 1)

\* the variables and literals an expression evaluates, left to right: every
\* identifier or literal that is not a field or method name (after '.'), a
\* function path (before '(') or 'mut'
IsAtomAt(toks, i) ==
    /\ IsIdent(toks[i]) \/ toks[i] \in Literals
    /\ ~(i > 1 /\ toks[i - 1] = ".")
    /\ ~(i < Len(toks) /\ toks[i + 1] = "(")

RECURSIVE EvalExpr(_, _, _)
EvalExpr(toks, env, i) ==
    IF i > Len(toks) THEN <<>>
    ELSE IF IsAtomAt(toks, i)
    THEN <<[tok |-> toks[i], den |-> Lookup(env, toks[i], Len(env))]>>
         \o EvalExpr(toks, env, i + 1)
    ELSE EvalExpr(toks, env, i + 1)

Bind(name, expr) == [name |-> name, den |-> [kind |-> "local", of |-> expr]]

\* ( [mut] name , )*  or  [mut] name : the names a pattern binds and whether
\* each is mutable
PatternNames(pat) ==
    With(IF Peek(pat, "(")
         THEN SelectSeq(SplitTop(SubSeq(pat, 2, Len(pat) - 1)), LAMBDA p : p # <<>>)
         ELSE <<pat>>, LAMBDA parts :
        [i \in 1..Len(parts) |->
            [name |-> parts[i][Len(parts[i])], is_mut |-> Peek(parts[i], "mut")]])

RunInit ==
    [status |-> "ok", env |-> <<>>, trace |-> <<>>, lets |-> <<>>, decl |-> <<>>,
     lit |-> <<>>, rest |-> <<>>, tuple |-> <<>>]

\* entries of a struct literal or elements of a tuple: the last may be
\* followed by a comma, none may be empty
Entries(content) ==
    With(SplitTop(content), LAMBDA parts :
        IF content = <<>> THEN <<>>
        ELSE IF parts[Len(parts)] = <<>> THEN SubSeq(parts, 1, Len(parts) - 1)
        ELSE parts)

RECURSIVE RunStmts(_, _)
RunStmts(toks, st) ==
    IF toks = <<>> \/ st.status # "ok" THEN st
    ELSE IF Head(toks) = ";" \/ Head(toks) = DeriveAnon THEN RunStmts(Tail(toks), st)
    ELSE IF Head(toks) = "compile_error" \/ Head(toks) = "panicked" \/ Head(toks) = "spread_inner"
    THEN [st EXCEPT !.status = "compile_error"]
    ELSE IF Head(toks) = "struct"
    THEN With(Group(Drop(toks, FindTop(toks, "{") - 1), "{", "}"), LAMBDA g :
             RunStmts(g.rest, [st EXCEPT !.decl = SubSeq(toks, 1, Len(toks) - Len(g.rest))]))
    ELSE IF Head(toks) = "let"
    THEN With(FindTop(toks, "="), LAMBDA eq :
         With(FindTop(toks, ";"), LAMBDA semi :
         With(PatternNames(SubSeq(toks, 2, eq - 1)), LAMBDA pat :
         With(SubSeq(toks, eq + 1, semi - 1), LAMBDA expr :
         \* a block on the right: its statements run in a scope of their own
         With(IF Peek(expr, "{")
              THEN RunStmts(SubSeq(expr, 2, Len(expr) - 1), [st EXCEPT !.tuple = <<>>])
              ELSE [st EXCEPT !.trace = st.trace \o EvalExpr(expr, st.env, 1),
                              !.tuple = <<expr>>], LAMBDA inner :
             IF inner.status # "ok" \/ Len(inner.tuple) # Len(pat)
             THEN [st EXCEPT !.status = "compile_error"]
             ELSE RunStmts(Drop(toks, semi),
                      [st EXCEPT
                          !.trace = inner.trace,
                          !.env = st.env \o [i \in 1..Len(pat) |->
                                                Bind(pat[i].name, inner.tuple[i])],
                          !.lets = st.lets \o [i \in 1..Len(pat) |->
                                                  [name |-> pat[i].name,
                                                   is_mut |-> pat[i].is_mut,
                                                   value |-> inner.tuple[i]]]]))))))
    ELSE IF Head(toks) = "{"
    THEN \* a block expression: { statements, then the value }
         With(Group(toks, "{", "}"), LAMBDA g :
             IF ~g.ok \/ g.rest # <<>> THEN [st EXCEPT !.status = "compile_error"]
             ELSE RunStmts(g.val, st))
    ELSE IF Head(toks) = "("
    THEN \* a tuple: its elements are evaluated in order
         With(Group(toks, "(", ")"), LAMBDA g :
         With(Entries(g.val), LAMBDA elems :
             IF ~g.ok \/ g.rest # <<>> \/ \E i \in 1..Len(elems) : elems[i] = <<>>
             THEN [st EXCEPT !.status = "compile_error"]
             ELSE [st EXCEPT !.tuple = elems,
                             !.trace = st.trace
                                 \o Concat([i \in 1..Len(elems) |-> EvalExpr(elems[i], st.env, 1)])]))
    ELSE \* a struct literal: Name { field: value, ... [..rest] }
         With(Group(Tail(toks), "{", "}"), LAMBDA g :
         With(Entries(g.val), LAMBDA entries :
         With(SelectSeq(entries, LAMBDA e : ~Peek(e, "..")), LAMBDA fields :
         With(SelectSeq(entries, LAMBDA e : Peek(e, "..")), LAMBDA rests :
         With([i \in 1..Len(fields) |->
                  [name |-> fields[i][1], value |-> Drop(fields[i], 2),
                   reads |-> EvalExpr(Drop(fields[i], 2), st.env, 1)]], LAMBDA lit :
             IF \/ ~IsIdent(Head(toks)) \/ ~g.ok \/ g.rest # <<>>
                \/ \E i \in 1..Len(entries) :
                       /\ ~Peek(entries[i], "..")
                       /\ ~(Len(entries[i]) >= 3 /\ IsIdent(entries[i][1])
                            /\ entries[i][2] = ":")
                \* the base expression comes last and no comma follows it
                \/ \E i \in 1..Len(entries) : Peek(entries[i], "..") /\ i # Len(entries)
                \/ (rests # <<>> /\ g.val[Len(g.val)] = ",")
             THEN [st EXCEPT !.status = "compile_error"]
             ELSE [st EXCEPT !.lit = lit,
                             !.rest = IF rests = <<>> THEN <<>> ELSE Tail(rests[1]),
                             !.trace = st.trace
                                 \o Concat([i \in 1..Len(lit) |-> lit[i].reads])
                                 \o (IF rests = <<>> THEN <<>>
                                     ELSE EvalExpr(Tail(rests[1]), st.env, 1))])))))

\* the generated code, run where the macro was invoked
Run(c) == RunStmts(c, RunInit)

(***************************************************************************)
(* Running the code of assert_fields_eq!: values have a type, so that a    *)
(* comparison of two different types does not compile.                     *)
(***************************************************************************)
Val(ty, v, fty) == [ok |-> TRUE, ty |-> ty, v |-> v, fty |-> fty]
NoVal == [ok |-> FALSE, ty |-> <<>>, v |-> 0, fty |-> <<>>]

\* the caller's values are structs S { a: u32, b: u32, c: u32 }
SFields == {"a", "b", "c"}
SVal(v) == Val(<<"S">>, v, [f \in SFields |-> <<"u32">>])

RECURSIVE Deref(_)
Deref(ty) == IF ty # <<>> /\ Head(ty) = "&" THEN Deref(Tail(ty)) ELSE ty

RECURSIVE LookupVal(_, _, _, _)
LookupVal(env, outer, tok, i) ==
    IF i = 0
    THEN IF tok \in DOMAIN outer THEN SVal(outer[tok]) ELSE NoVal
    ELSE IF env[i].name = tok THEN env[i].val
    ELSE LookupVal(env, outer, tok, i - 1)

IsSet(seq) == \A i, j \in 1..Len(seq) : seq[i] = seq[j] => i = j
Range(seq) == {seq[i] : i \in 1..Len(seq)}

\* the number an integer literal denotes
LitVal(t) == CASE t = "1" -> 1 [] t = "2" -> 2 [] OTHER -> 5

\* ctx: the bindings in scope, the declared fields of struct Fields, and the
\* caller's variables
RECURSIVE EvalVal(_, _)
RECURSIVE EvalBlock(_, _, _)
EvalVal(toks, ctx) ==
    IF toks = <<>> THEN NoVal
    ELSE IF Len(toks) = 1 /\ toks[1] \in Literals
    THEN Val(<<"u32">>, LitVal(toks[1]), <<>>)
    ELSE IF Head(toks) = "{" /\ CloseIdx(toks, "{", "}") = Len(toks)
    THEN EvalBlock(SubSeq(toks, 2, Len(toks) - 1), ctx, <<>>)
    ELSE IF Head(toks) = "&"
    THEN With(EvalVal(IF Peek(Tail(toks), "mut") THEN Tail(Tail(toks)) ELSE Tail(toks), ctx),
              LAMBDA inner : IF inner.ok THEN [inner EXCEPT !.ty = <<"&">> \o @] ELSE NoVal)
    ELSE IF Head(toks) = "(" /\ CloseIdx(toks, "(", ")") = Len(toks)
    THEN EvalVal(SubSeq(toks, 2, Len(toks) - 1), ctx)
    ELSE IF Len(toks) = 1
    THEN LookupVal(ctx.env, ctx.outer, toks[1], Len(ctx.env))
    ELSE IF Len(toks) = 3 /\ toks[2] = "."
    THEN \* field access, through any number of references
         With(EvalVal(<<toks[1]>>, ctx), LAMBDA base :
             IF base.ok /\ toks[3] \in DOMAIN base.fty
             THEN Val(base.fty[toks[3]], base.v[toks[3]], <<>>)
             ELSE NoVal)
    ELSE IF Head(toks) = "Fields" /\ Peek(Tail(toks), "{")
    THEN \* Fields { f: &'a T, .. }: every declared field once, each a reference
         With(Group(Tail(toks), "{", "}"), LAMBDA g :
         With(Entries(g.val), LAMBDA entries :
         With([i \in 1..Len(entries) |-> entries[i][1]], LAMBDA names :
         With([i \in 1..Len(entries) |-> EvalVal(Drop(entries[i], 2), ctx)], LAMBDA vals :
         With([f \in Range(names) |-> vals[CHOOSE i \in 1..Len(entries) : names[i] = f]],
              LAMBDA at :
             IF \/ ~g.ok \/ g.rest # <<>> \/ ctx.decl = <<>>
                \/ \E i \in 1..Len(entries) : Len(entries[i]) < 3 \/ entries[i][2] # ":"
                \/ ~IsSet(names) \/ Range(names) # Range(ctx.decl)
                \/ \E i \in 1..Len(entries) : ~vals[i].ok \/ ~Peek(vals[i].ty, "&")
             THEN NoVal
             ELSE Val(<<"Fields", "<">>
                          \o EachComma([i \in 1..Len(ctx.decl) |-> Tail(at[ctx.decl[i]].ty)])
                          \o <<">">>,
                      [f \in Range(names) |-> at[f].v],
                      [f \in Range(names) |-> at[f].ty]))))))
    ELSE NoVal

\* the block anon! expands to: struct Anon<T0, ..> { f: T0, .. }, the
\* bindings of the sources, and the literal Anon { f: value, .. }, whose
\* fields must be the declared ones, each once; decl holds the declared names
EvalBlock(toks, ctx, decl) ==
    IF toks = <<>> THEN NoVal
    ELSE IF Head(toks) = DeriveAnon THEN EvalBlock(Tail(toks), ctx, decl)
    ELSE IF Head(toks) = "struct"
    THEN With(Group(Drop(toks, 2), "<", ">"), LAMBDA generics :
         With(Entries(generics.val), LAMBDA params :
         With(Group(generics.rest, "{", "}"), LAMBDA body :
         With(Entries(body.val), LAMBDA fields :
             IF \/ ~generics.ok \/ ~body.ok \/ ~IsSet(params) \/ Len(fields) # Len(params)
                \/ \E i \in 1..Len(fields) :
                      Len(fields[i]) < 3 \/ fields[i][2] # ":" \/ Drop(fields[i], 2) # params[i]
                \/ ~IsSet([i \in 1..Len(fields) |-> fields[i][1]])
             THEN NoVal
             ELSE EvalBlock(body.rest, ctx, [i \in 1..Len(fields) |-> fields[i][1]])))))
    ELSE IF Head(toks) = "let"
    THEN With(FindTop(toks, ";"), LAMBDA semi :
         With(EvalVal(SubSeq(toks, 4, semi - 1), ctx), LAMBDA val :
             IF semi = 0 \/ Len(toks) < 4 \/ toks[3] # "=" \/ ~val.ok THEN NoVal
             ELSE EvalBlock(Drop(toks, semi),
                            [env |-> Append(ctx.env, [name |-> toks[2], val |-> val]),
                             decl |-> ctx.decl, outer |-> ctx.outer],
                            decl)))
    ELSE IF Head(toks) = "Anon" /\ Peek(Tail(toks), "{")
    THEN With(Group(Tail(toks), "{", "}"), LAMBDA g :
         With(Entries(g.val), LAMBDA entries :
         With([i \in 1..Len(entries) |-> entries[i][1]], LAMBDA names :
         With([i \in 1..Len(entries) |-> EvalVal(Drop(entries[i], 2), ctx)], LAMBDA vals :
             IF \/ ~g.ok \/ g.rest # <<>> \/ decl = <<>>
                \/ ~IsSet(names) \/ Range(names) # Range(decl)
                \/ \E i \in 1..Len(entries) :
                      Len(entries[i]) < 3 \/ entries[i][2] # ":" \/ ~vals[i].ok
             THEN NoVal
             ELSE Val(<<"Anon", "<">>
                          \o EachComma([i \in 1..Len(decl) |->
                                 vals[CHOOSE k \in 1..Len(names) : names[k] = decl[i]].ty])
                          \o <<">">>,
                      [f \in Range(names) |-> vals[CHOOSE i \in 1..Len(names) : names[i] = f].v],
                      [f \in Range(names) |-> vals[CHOOSE i \in 1..Len(names) : names[i] = f].ty])))))
    ELSE NoVal

\* evals: the expression of each let that ran, in order, with the caller's
\* variables it reads
AssertRunInit ==
    [status |-> "ok", env |-> <<>>, decl |-> <<>>, shown |-> <<>>, evals |-> <<>>]

RECURSIVE AssertStmts(_, _, _)
AssertStmts(toks, st, outer) ==
    IF toks = <<>> \/ st.status # "ok" THEN st
    ELSE IF Head(toks) \in {";", AllowAttr, DeriveDebugEq}
    THEN AssertStmts(Tail(toks), st, outer)
    ELSE IF Head(toks) = "{"
    THEN With(Group(toks, "{", "}"), LAMBDA g :
             IF ~g.ok \/ g.rest # <<>> THEN [st EXCEPT !.status = "compile_error"]
             ELSE AssertStmts(g.val, st, outer))
    ELSE IF Head(toks) = "struct"
    THEN \* struct Fields<'a, f, ..> { f: &'a f, .. }: type parameters and
         \* fields must each be distinct
         With(Group(Drop(toks, 2), "<", ">"), LAMBDA generics :
         With(SelectSeq(Entries(generics.val), LAMBDA e : e # <<"'a">>), LAMBDA params :
         With(Group(generics.rest, "{", "}"), LAMBDA body :
         With(Entries(body.val), LAMBDA fields :
         With([i \in 1..Len(fields) |-> fields[i][1]], LAMBDA names :
             IF ~generics.ok \/ ~body.ok \/ ~IsSet(params) \/ ~IsSet(names)
             THEN [st EXCEPT !.status = "compile_error"]
             ELSE AssertStmts(body.rest, [st EXCEPT !.decl = names], outer))))))
    ELSE IF Head(toks) = "let"
    THEN With(FindTop(toks, ";"), LAMBDA semi :
         With(EvalVal(SubSeq(toks, 4, semi - 1),
                      [env |-> st.env, decl |-> st.decl, outer |-> outer]), LAMBDA val :
             IF semi = 0 \/ Len(toks) < 4 \/ toks[3] # "=" \/ ~val.ok
             THEN [st EXCEPT !.status = "compile_error"]
             ELSE AssertStmts(Drop(toks, semi),
                              [st EXCEPT
                                  !.env = Append(@, [name |-> toks[2], val |-> val]),
                                  !.evals = Append(@,
                                      [name |-> toks[2], expr |-> SubSeq(toks, 4, semi - 1),
                                       outer |-> {toks[k] : k \in {i \in 4..(semi - 1) :
                                                    /\ toks[i] \in DOMAIN outer
                                                    /\ ~(toks[i - 1] = ".")
                                                    /\ \A j \in 1..Len(st.env) :
                                                          st.env[j].name # toks[i]}}])],
                              outer)))
    ELSE IF Head(toks) = "assert_eq"
    THEN \* assert_eq!(left, right [, message]): both sides of one type;
         \* a failure shows the two values compared
         With(Group(Drop(toks, 2), "(", ")"), LAMBDA g :
         With(SplitTop(g.val), LAMBDA args :
         With([env |-> st.env, decl |-> st.decl, outer |-> outer], LAMBDA ctx :
         With(EvalVal(args[1], ctx), LAMBDA x :
         With(EvalVal(args[2], ctx), LAMBDA y :
             IF \/ ~g.ok \/ Len(args) < 2 \/ \E i \in 1..Len(args) : args[i] = <<>>
                \/ ~x.ok \/ ~y.ok \/ x.ty # y.ty
             THEN [st EXCEPT !.status = "compile_error"]
             ELSE IF x.v = y.v THEN AssertStmts(g.rest, st, outer)
             ELSE [st EXCEPT !.status = "panic", !.shown = <<x.v, y.v>>])))))
    ELSE [st EXCEPT !.status = "compile_error"]

\* the generated code, run where the caller's variables have the values outer
AssertRun(c, outer) == AssertStmts(c, AssertRunInit, outer)

(***************************************************************************)
(* Reading the items fn_struct! generates: the struct, the Default         *)
(* implementation when there is one, and the call method.                  *)
(***************************************************************************)
ItemsInit ==
    [status |-> "ok", fields |-> <<>>, has_default |-> FALSE, defaults |-> <<>>,
     params |-> <<>>, ret |-> <<>>, path |-> <<>>, args |-> <<>>]

\* name : rest  as [name, value]
NameColon(entries) ==
    [i \in 1..Len(entries) |-> [name |-> entries[i][1], value |-> Drop(entries[i], 2)]]
WellNamed(entries) ==
    \A i \in 1..Len(entries) :
        Len(entries[i]) >= 3 /\ IsIdentAny(entries[i][1]) /\ entries[i][2] = ":"

ReadItems(c) ==
    IF c = <<>> \/ Head(c) = "compile_error" THEN [ItemsInit EXCEPT !.status = "compile_error"]
    ELSE With(FindTop(c, "struct"), LAMBDA s :
         With(Group(Drop(c, s + 1), "{", "}"), LAMBDA body :
         With(Entries(body.val), LAMBDA fields :
         With(StartsWith(body.rest, <<"impl">> \o DefaultTrait), LAMBDA hasDefault :
         \* impl ::core::default::Default for Name { fn default() -> Self { Self { .. } } }
         With(Group(Drop(body.rest, Len(DefaultTrait) + 3), "{", "}"), LAMBDA defImpl :
         With(Group(Drop(defImpl.val, FindTop(defImpl.val, "{") - 1), "{", "}"), LAMBDA defFn :
         With(Group(Tail(defFn.val), "{", "}"), LAMBDA defLit :
         With(Entries(defLit.val), LAMBDA defaults :
         \* impl Name { pub fn call ( params ) -> R { path ( args ) } }
         With(Group(Drop(IF hasDefault THEN defImpl.rest ELSE body.rest, 2), "{", "}"),
              LAMBDA callImpl :
         With(Group(Drop(callImpl.val, 3), "(", ")"), LAMBDA params :
         With(FindTop(params.rest, "{"), LAMBDA open :
         With(Group(Drop(params.rest, open - 1), "{", "}"), LAMBDA callBody :
         With(FindTop(callBody.val, "("), LAMBDA paren :
         With(Group(Drop(callBody.val, paren - 1), "(", ")"), LAMBDA args :
         With(Entries(params.val), LAMBDA paramList :
         With(Entries(args.val), LAMBDA argList :
             IF \/ s = 0 \/ ~body.ok \/ ~WellNamed(fields)
                \/ (hasDefault /\ (~defImpl.ok \/ ~defFn.ok \/ ~defLit.ok \/ ~WellNamed(defaults)))
                \/ ~callImpl.ok \/ ~params.ok \/ open = 0 \/ ~callBody.ok \/ paren = 0
                \/ ~args.ok
                \* every parameter after the method's own self has a type
                \/ ~WellNamed(Tail(paramList))
                \/ \E i \in 1..Len(argList) : argList[i] = <<>>
             THEN [ItemsInit EXCEPT !.status = "compile_error"]
             ELSE [status |-> "ok", fields |-> NameColon(fields),
                   has_default |-> hasDefault,
                   defaults |-> IF hasDefault THEN NameColon(defaults) ELSE <<>>,
                   params |-> paramList, ret |-> SubSeq(params.rest, 2, open - 1),
                   path |-> SubSeq(callBody.val, 1, paren - 1),
                   args |-> argList]))))))))))))))))

(***************************************************************************)
(* What the caller writes, and its tokens                                  *)
(***************************************************************************)
ModToks(m) ==
    CASE m.kind = "Ref" -> <<"&">>
      [] m.kind = "RefMut" -> <<"&", "mut">>
      [] m.kind = "Into" -> <<">">>
      [] m.kind = "Clone" -> <<"+">>
      [] m.kind = "CloneInto" -> <<"+", ">">>
      [] m.kind = "Custom" -> <<"[", m.path, "]">>
      [] m.kind = "CustomRef" -> <<"[", m.path, "]", "&">>
      [] m.kind = "CustomRefMut" -> <<"[", m.path, "]", "&", "mut">>
      [] OTHER -> <<>>

\* a written field: [#[clone]] [mut] [modifier] name [: value]
Written(attr, f) == [attr |-> attr, f |-> f]
WrittenToks(w) ==
    (IF w.attr THEN CloneAttr ELSE <<>>)
    \o (IF w.f.is_mut THEN <<"mut">> ELSE <<>>)
    \o ModToks(w.f.modifier) \o <<w.f.name>>
    \o (IF w.f.value = NoValue THEN <<>> ELSE <<":">> \o w.f.value)

\* a written item: a field, [#[clone]] { fields } in source, or ..source
GivenField(w) == [t |-> "Field", attr |-> FALSE, fields |-> <<w>>, source |-> <<>>]
GivenList(attr, ws, source) ==
    [t |-> "SpreadList", attr |-> attr, fields |-> ws, source |-> source]
GivenFinal(source) == [t |-> "FinalSpread", attr |-> FALSE, fields |-> <<>>, source |-> source]

GivenToks(g) ==
    CASE g.t = "Field" -> WrittenToks(g.fields[1])
      [] g.t = "SpreadList" ->
            (IF g.attr THEN CloneAttr ELSE <<>>) \o <<"{">>
            \o JoinComma([i \in 1..Len(g.fields) |-> WrittenToks(g.fields[i])])
            \o <<"}", "in">> \o g.source
      [] OTHER -> <<"..">> \o g.source

Given(items, trailing) == [items |-> items, trailing |-> trailing]
ItemsToks(g) ==
    JoinComma([i \in 1..Len(g.items) |-> GivenToks(g.items[i])])
    \o (IF g.trailing THEN <<",">> ELSE <<>>)

Macros == {"anon", "slet", "spread"}
StructName == "S"
InputToks(m, g) ==
    CASE m = "anon" -> ItemsToks(g)
      [] m = "slet" -> <<"{">> \o ItemsToks(g) \o <<"}">>
      [] OTHER -> <<StructName, "{">> \o ItemsToks(g) \o <<"}">>

Plain(name) == Written(FALSE, MkField(FALSE, NoMod, name, NoValue))
WithMod(kind, name) == Written(FALSE, MkField(FALSE, Mod(kind, NoPath), name, NoValue))

\* the items invocations of several items are made of
ItemPool ==
    { GivenField(Plain("a")),
      GivenField(Written(FALSE, MkField(FALSE, NoMod, "b", <<"v">>))),
      GivenField(Written(FALSE, MkField(TRUE, Mod("Into", NoPath), "c", NoValue))),
      GivenField(Written(FALSE, MkField(FALSE, NoMod, "x", <<"__a_b">>))),
      GivenList(FALSE, <<Plain("a")>>, <<"s1">>),
      GivenList(FALSE, <<Plain("a_b")>>, <<"s1">>),
      GivenList(FALSE, <<Plain("a"), WithMod("Ref", "b")>>, <<"s2">>),
      GivenFinal(<<"r">>) }

MaxItems == 3

RECURSIVE SeqsUpTo(_, _)
\* the sequences over S of length at most n
SeqsUpTo(S, n) ==
    IF n = 0 THEN {<<>>}
    ELSE LET shorter == SeqsUpTo(S, n - 1)
         IN  shorter \cup {Append(q, x) : q \in {r \in shorter : Len(r) = n - 1}, x \in S}

\* every modifier, the custom ones with the path f
ModKinds == {"None", "Ref", "RefMut", "Into", "Clone", "CloneInto",
             "Custom", "CustomRef", "CustomRefMut"}
IsCustom(kind) == kind \in {"Custom", "CustomRef", "CustomRefMut"}
AllMods == {Mod(k, IF IsCustom(k) THEN "f" ELSE NoPath) : k \in ModKinds}

Values == {NoValue, <<"v">>, <<"&", "v">>, <<"5">>}
Sources == {<<"s1">>, <<"&", "mut", "s2">>}
PosName == <<"a", "b", "c", "d", "e">>
MaxFields == 2

\* one field with any modifier, mutability marker and value
RichFields ==
    {GivenField(Written(FALSE, MkField(is_mut, m, "a", v))) :
        is_mut \in BOOLEAN, m \in AllMods, v \in Values}

\* one spread-list of 1..MaxFields fields, each with any modifier
RichLists ==
    UNION {{GivenList(FALSE,
                      [i \in 1..n |-> Written(FALSE, MkField(FALSE, ms[i], PosName[i], NoValue))],
                      src) :
               ms \in [1..n -> AllMods], src \in Sources} : n \in 1..MaxFields}

\* one spread-list in the macro_rules syntax: #[clone] on the list or on fields
AttrLists ==
    UNION {{GivenList(attr, [i \in 1..n |-> Written(fattr[i], Plain(PosName[i]).f)], src) :
               attr \in BOOLEAN, fattr \in [1..n -> BOOLEAN], src \in Sources} :
           n \in 1..MaxFields}

\* spread-lists off the grammar: no field, a mutable field, a field with a value
OddLists ==
    { GivenList(FALSE, <<>>, <<"s1">>),
      GivenList(FALSE, <<Written(FALSE, MkField(TRUE, NoMod, "a", NoValue))>>, <<"s1">>),
      GivenList(FALSE, <<Written(FALSE, MkField(FALSE, NoMod, "a", <<"v">>))>>, <<"s1">>),
      GivenList(FALSE, <<Written(FALSE, MkField(FALSE, Mod("Ref", NoPath), "a", <<"5">>)),
                         Plain("b")>>, <<"s2">>) }

SingleItems == RichFields \cup RichLists \cup AttrLists \cup OddLists

Givens ==
    {Given(items, trailing) : items \in SeqsUpTo(ItemPool, MaxItems), trailing \in BOOLEAN}
    \cup {Given(<<item>>, trailing) : item \in SingleItems, trailing \in BOOLEAN}

NoAst == Ok(<<>>, <<>>)

Init ==
    /\ macro \in Macros
    /\ given \in Givens
    /\ input = InputToks(macro, given)
    /\ pc = "call"
    /\ ast = NoAst
    /\ code = <<>>
    /\ run = RunInit

(***************************************************************************)
(* The pipeline: the macro is called, its output is expanded further when  *)
(* it holds macro invocations, and the result runs.                        *)
(***************************************************************************)
CallAnon ==
    /\ pc = "call" /\ macro = "anon"
    /\ \E e \in {anon(input)} : ast' = e.parsed /\ code' = e.tokens
    /\ pc' = "expanded"
    /\ UNCHANGED <<macro, given, input, run>>

CallSlet ==
    /\ pc = "call" /\ macro = "slet"
    /\ \E e \in {slet(input)} : ast' = e.parsed /\ code' = e.tokens
    /\ pc' = "expanded"
    /\ UNCHANGED <<macro, given, input, run>>

\* macro_rules! spread: ($($inner:tt)*) => { $crate::spread_inner!($($inner)*) }
CallSpread ==
    /\ pc = "call" /\ macro = "spread"
    /\ code' = Invoke(input)
    /\ pc' = "expanding"
    /\ UNCHANGED <<macro, given, input, ast, run>>

SpreadInnerStep ==
    /\ pc = "expanding"
    /\ \E r \in {ExpandFirst(code)} :
           /\ code' = r.code
           /\ ast' = IF r.ok THEN ast ELSE Fail(r.err.msg, r.err.span)
           /\ pc' = IF r.ok /\ FirstInvocation(r.code) # 0 THEN "expanding" ELSE "expanded"
    /\ UNCHANGED <<macro, given, input, run>>

RunCode ==
    /\ pc = "expanded"
    /\ run' = Run(code)
    /\ pc' = "done"
    /\ UNCHANGED <<macro, given, input, ast, code>>

Next == CallAnon \/ CallSlet \/ CallSpread \/ SpreadInnerStep \/ RunCode

Spec == Init /\ [][Next]_vars

(***************************************************************************)
(* assert_fields_eq!(left, right, [fields]): the invocations, and the      *)
(* pipeline of the procedural macro and of the macro_rules one             *)
(***************************************************************************)
SVals == [SFields -> {0, 1}]
MaxListed == 2
Message == "\"unexpected\""

\* the two expressions compared
AssertArgs ==
    { <<(<<"l">>), (<<"r">>)>>, <<(<<"l">>), (<<"left">>)>>,
      <<(<<"&", "l">>), (<<"r">>)>>, <<(<<"l">>), (<<"&", "r">>)>> }

\* trailing comma in the list, message after the list
AssertStyles == {<<FALSE, FALSE>>, <<TRUE, FALSE>>, <<FALSE, TRUE>>}

AssertGiven(args, fields, style, lv, rv) ==
    [left |-> args[1], right |-> args[2], fields |-> fields,
     trailing |-> style[1], message |-> style[2],
     vals |-> [x \in {"l", "r", "left"} |-> IF x = "l" THEN lv ELSE rv]]

AssertGivens ==
    {AssertGiven(args, fields, style, lv, rv) :
        args \in AssertArgs, fields \in SeqsUpTo(SFields, MaxListed),
        style \in AssertStyles, lv \in SVals, rv \in SVals}

AssertToks(g) ==
    g.left \o <<",">> \o g.right \o <<",", "[">>
    \o JoinComma([i \in 1..Len(g.fields) |-> <<g.fields[i]>>])
    \o (IF g.trailing THEN <<",">> ELSE <<>>)
    \o <<"]">>
    \o (IF g.message THEN <<",", Message>> ELSE <<>>)

AssertMacros == {"assert_fields_eq", "assert_fields_eq_inner"}

InitAssert ==
    /\ macro \in AssertMacros
    /\ given \in AssertGivens
    /\ input = AssertToks(given)
    /\ pc = "call"
    /\ ast = NoAst
    /\ code = <<>>
    /\ run = AssertRunInit

\* the procedural macro
CallAssert ==
    /\ pc = "call" /\ macro = "assert_fields_eq"
    /\ \E e \in {assert_fields_eq(input)} : ast' = e.parsed /\ code' = e.tokens
    /\ pc' = "expanded"
    /\ UNCHANGED <<macro, given, input, run>>

\* macro_rules! assert_fields_eq: ($($inner:tt)*) => assert_fields_eq_inner!
CallAssertInner ==
    /\ pc = "call" /\ macro = "assert_fields_eq_inner"
    /\ \E e \in {assert_fields_eq_inner(input)} : ast' = e.parsed /\ code' = e.tokens
    /\ pc' = "expanded"
    /\ UNCHANGED <<macro, given, input, run>>

RunAssert ==
    /\ pc = "expanded"
    /\ run' = AssertRun(code, given.vals)
    /\ pc' = "done"
    /\ UNCHANGED <<macro, given, input, ast, code>>

NextAssert == CallAssert \/ CallAssertInner \/ RunAssert

SpecAssert == InitAssert /\ [][NextAssert]_vars

(***************************************************************************)
(* The macros that take the items of an anonymous struct: anon!, slet! and *)
(* assert_fields_eq!(left, { items }), the last one compared with left     *)
(***************************************************************************)
MaxAnonItems == 2

\* a: 1, b: 1, &c: 1, mut a: 1, { a } in r, { b, c } in &r, ..r
AssertAnonPool ==
    { GivenField(Written(FALSE, MkField(FALSE, NoMod, "a", <<"1">>))),
      GivenField(Written(FALSE, MkField(FALSE, NoMod, "b", <<"1">>))),
      GivenField(Written(FALSE, MkField(FALSE, Mod("Ref", NoPath), "c", <<"1">>))),
      GivenField(Written(FALSE, MkField(TRUE, NoMod, "a", <<"1">>))),
      GivenList(FALSE, <<Plain("a")>>, <<"r">>),
      GivenList(FALSE, <<Plain("b"), Plain("c")>>, <<"&", "r">>),
      GivenFinal(<<"r">>) }

AssertAnonGivens ==
    {[left |-> <<"l">>, items |-> items, trailing |-> tr, message |-> msg,
      vals |-> [x \in {"l", "r"} |-> IF x = "l" THEN lv ELSE rv]] :
        items \in SeqsUpTo(AssertAnonPool, MaxAnonItems), tr \in BOOLEAN,
        msg \in BOOLEAN, lv \in SVals, rv \in SVals}

AssertAnonToks(g) ==
    g.left \o <<",", "{">> \o ItemsToks(g) \o <<"}">>
    \o (IF g.message THEN <<",", Message>> ELSE <<>>)

ItemMacros == {"anon", "slet", "assert_fields_eq"}

InitItems ==
    /\ macro \in ItemMacros
    /\ IF macro = "assert_fields_eq"
       THEN given \in AssertAnonGivens /\ input = AssertAnonToks(given) /\ run = AssertRunInit
       ELSE given \in Givens /\ input = InputToks(macro, given) /\ run = RunInit
    /\ pc = "call"
    /\ ast = NoAst
    /\ code = <<>>

\* the expansion of anon! or slet! runs
RunItems == macro \in {"anon", "slet"} /\ RunCode

\* the expansion of assert_fields_eq! runs
RunAssertAnon == macro = "assert_fields_eq" /\ RunAssert

NextItems == CallAnon \/ CallSlet \/ CallAssert \/ RunItems \/ RunAssertAnon

SpecItems == InitItems /\ [][NextItems]_vars

(***************************************************************************)
(* fn_struct!: the invocations and the pipeline                            *)
(***************************************************************************)
TypedToks(f) ==
    ModToks(f.modifier) \o <<f.name>>
    \o (IF f.type_ = NoType THEN <<>> ELSE <<":">> \o f.type_)
    \o (IF f.value = NoValue THEN <<>> ELSE <<"=">> \o f.value)

\* the receiver with and without modifier, fields with and without a
\* default value, and a field written without its type
ArgPool ==
    { MkTypedField(NoMod, "self", NoType, NoValue),
      MkTypedField(Mod("Ref", NoPath), "self", NoType, NoValue),
      MkTypedField(Mod("RefMut", NoPath), "self", NoType, NoValue),
      MkTypedField(Mod("Into", NoPath), "self", NoType, NoValue),
      MkTypedField(Mod("Custom", "f"), "self", NoType, NoValue),
      MkTypedField(NoMod, "one", <<"u32">>, NoValue),
      MkTypedField(NoMod, "one", NoType, NoValue),
      MkTypedField(NoMod, "one", <<"u32">>, <<"1">>),
      MkTypedField(Mod("Ref", NoPath), "two", <<"u32">>, NoValue),
      MkTypedField(Mod("Ref", NoPath), "two", <<"u32">>, <<"2">>),
      MkTypedField(Mod("CloneInto", NoPath), "c", <<"&", "String">>, <<"&", "v">>),
      MkTypedField(Mod("CustomRef", "f"), "d", <<"u32">>, NoValue) }

MaxArgs == 3

\* [attributes, visibility and & before the name; the path; the return type]
FnHeaders ==
    { [pre |-> <<>>, path |-> <<"T", "::", "m">>, ret |-> <<>>],
      [pre |-> <<"#[derive(Debug)]", "pub", "&">>, path |-> <<"T", "::", "m">>,
       ret |-> <<"->", "u32">>],
      [pre |-> <<"pub">>, path |-> <<"g">>, ret |-> <<"->", "&", "String">>],
      [pre |-> <<"&">>, path |-> <<"g">>, ret |-> <<>>],
      [pre |-> <<>>, path |-> <<"<", "T", "as", "Tr", ">", "::", "m">>,
       ret |-> <<"->", "u32">>] }

FnGiven(header, fields, trailing) ==
    [header |-> header, fields |-> fields, trailing |-> trailing]

FnGivens ==
    {FnGiven(h, fs, tr) : h \in FnHeaders, fs \in SeqsUpTo(ArgPool, MaxArgs),
                          tr \in BOOLEAN}

FnToks(g) ==
    g.header.pre \o <<"Args", "for", "fn">> \o g.header.path \o <<"(">>
    \o JoinComma([i \in 1..Len(g.fields) |-> TypedToks(g.fields[i])])
    \o (IF g.trailing /\ g.fields # <<>> THEN <<",">> ELSE <<>>)
    \o <<")">> \o g.header.ret

InitFnStruct ==
    /\ macro = "fn_struct"
    /\ given \in FnGivens
    /\ input = FnToks(given)
    /\ pc = "call"
    /\ ast = NoAst
    /\ code = <<>>
    /\ run = ItemsInit

CallFnStruct ==
    /\ pc = "call" /\ macro = "fn_struct"
    /\ \E e \in {fn_struct(input)} : ast' = e.parsed /\ code' = e.tokens
    /\ pc' = "expanded"
    /\ UNCHANGED <<macro, given, input, run>>

CompileItems ==
    /\ pc = "expanded"
    /\ run' = ReadItems(code)
    /\ pc' = "done"
    /\ UNCHANGED <<macro, given, input, ast, code>>

NextFnStruct == CallFnStruct \/ CompileItems

SpecFnStruct == InitFnStruct /\ [][NextFnStruct]_vars

(***************************************************************************)
(* Every macro, each with its invocations and its pipeline                 *)
(***************************************************************************)
\* the values compared do not change what a macro generates: here the two
\* sides of an assertion hold the same value
InitAll ==
    \/ Init
    \/ InitAssert /\ given.vals["l"] = given.vals["r"]
    \/ InitItems /\ macro = "assert_fields_eq" /\ given.vals["l"] = given.vals["r"]
    \/ InitFnStruct

RunExpansion == macro \in Macros /\ RunCode
RunAssertion == macro \in AssertMacros /\ RunAssert
RunGenerated == macro = "fn_struct" /\ CompileItems

NextAll ==
    \/ CallAnon \/ CallSlet \/ CallSpread \/ SpreadInnerStep
    \/ CallAssert \/ CallAssertInner \/ CallFnStruct
    \/ RunExpansion \/ RunAssertion \/ RunGenerated

SpecAll == InitAll /\ [][NextAll]_vars

(***************************************************************************)
(* clone! (macro_rules)                                                    *)
(***************************************************************************)
\* $(, $($tail:tt)+)? : nothing, or a comma and at least one token
CloneTail(rest) == rest = <<>> \/ (Peek(rest, ",") /\ Len(rest) >= 2)

\* $(clone!($($tail)+);)? : transcribed once when the tail was matched
CloneRest(rest) ==
    IF rest = <<>> THEN <<>> ELSE <<"clone", "!", "(">> \o Tail(rest) \o <<")", ";">>

\* a second rule that transcribes its binding without mut
CloneRuleMut_plain(args) ==
    <<"let", args[2], "=", args[2], ".", "clone", "(", ")", ";">>
    \o CloneRest(Drop(args, 2))

\* (mut $name:ident $(, $($tail:tt)+)?) => { let mut $name = $name.clone(); .. }
CloneRuleMut(args) ==
    <<"let", "mut", args[2], "=", args[2], ".", "clone", "(", ")", ";">>
    \o CloneRest(Drop(args, 2))

\* ($name:ident $(, $($tail:tt)+)?) => { let $name = $name.clone(); .. }
CloneRule(args) ==
    <<"let", args[1], "=", args[1], ".", "clone", "(", ")", ";">>
    \o CloneRest(Tail(args))

\* macro_rules! clone: the rules tried in order on the arguments
clone(args) ==
    IF args = <<>> THEN Ok(<<>>, <<>>)
    ELSE IF Peek(args, "mut") /\ PeekIdentAny(Tail(args)) /\ CloneTail(Drop(args, 2))
    THEN Ok(CloneRuleMut(args), <<>>)
    ELSE IF PeekIdentAny(args) /\ CloneTail(Tail(args))
    THEN Ok(CloneRule(args), <<>>)
    ELSE NoRule(args)

\* index of the first pending clone! invocation in code, 0 if none
FirstClone(c) ==
    With({i \in 1..Len(c) : c[i] = "clone" /\ i < Len(c) /\ c[i + 1] = "!"}, LAMBDA is :
        IF is = {} THEN 0 ELSE MinOf(is))

\* one macro expansion step: the first pending clone!(..); statement is
\* replaced by the statements its rule transcribes, or the expansion fails
ExpandClone(c) ==
    With(FirstClone(c), LAMBDA i :
    With(Group(Drop(c, i + 1), "(", ")"), LAMBDA g :
    With(clone(g.val), LAMBDA r :
        IF r.ok THEN [ok |-> TRUE, code |-> SubSeq(c, 1, i - 1) \o r.val \o Tail(g.rest),
                      err |-> r.val]
        ELSE [ok |-> FALSE, code |-> CompileError(r.val.msg), err |-> r.val])))

\* the variables cloned
CloneNames == {"s1", "s2", "v"}
MaxNames == 3

\* clone!([mut] n1, .., [mut] nk): the names, each with or without mut, and
\* whether a comma follows the last
CloneGivens ==
    {[names |-> ns, trailing |-> t] :
        ns \in SeqsUpTo([is_mut : BOOLEAN, name : CloneNames], MaxNames), t \in BOOLEAN}

CloneToks(g) ==
    JoinComma([i \in 1..Len(g.names) |->
        (IF g.names[i].is_mut THEN <<"mut">> ELSE <<>>) \o <<g.names[i].name>>])
    \o (IF g.trailing THEN <<",">> ELSE <<>>)

InitClone ==
    /\ macro = "clone"
    /\ given \in CloneGivens
    /\ input = CloneToks(given)
    /\ pc = "call"
    /\ ast = NoAst
    /\ code = <<>>
    /\ run = RunInit

\* the statement clone!(input); is met by the compiler
CallClone ==
    /\ pc = "call" /\ macro = "clone"
    /\ code' = <<"clone", "!", "(">> \o input \o <<")", ";">>
    /\ pc' = "expanding"
    /\ UNCHANGED <<macro, given, input, ast, run>>

CloneStep ==
    /\ pc = "expanding" /\ macro = "clone"
    /\ \E r \in {ExpandClone(code)} :
           /\ code' = r.code
           /\ ast' = IF r.ok THEN ast ELSE Fail(r.err.msg, r.err.span)
           /\ pc' = IF r.ok /\ FirstClone(r.code) # 0 THEN "expanding" ELSE "expanded"
    /\ UNCHANGED <<macro, given, input, run>>

RunClone == macro = "clone" /\ RunCode

NextClone == CallClone \/ CloneStep \/ RunClone

SpecClone == InitClone /\ [][NextClone]_vars

(***************************************************************************)
(* Properties                                                              *)
(***************************************************************************)
GivenLists == {i \in 1..Len(given.items) : given.items[i].t = "SpreadList"}
GivenFields == {i \in 1..Len(given.items) : given.items[i].t = "Field"}
GivenFinals == {i \in 1..Len(given.items) : given.items[i].t = "FinalSpread"}

\* the variable a source expression names: s1 in s1, s2 in &mut s2
SourceVar(source) == source[Len(source)]
SourceVars == {"s1", "s2"}

\* how many times the run evaluated the caller's variable v
Evaluations(v) ==
    Cardinality({k \in 1..Len(run.trace) :
                    run.trace[k].tok = v /\ run.trace[k].den.kind = "outer"})

\* the macro accepted the invocation and the generated code ran
Ran == pc = "done" /\ ast.ok /\ run.status = "ok"

ListsNonEmpty == \A i \in GivenLists : given.items[i].fields # <<>>

\* C1: when the expansion of an invocation whose spread-lists all have at
\* least one field runs, every source expression is evaluated exactly once
\* per spread-list it was written in, whatever the number of fields and
\* their modifiers, in the literal expansions and in the binding expansion.
C1_SourceEvaluatedOnce ==
    (Ran /\ ListsNonEmpty) =>
        \A v \in SourceVars :
            Evaluations(v) =
                Cardinality({i \in GivenLists : SourceVar(given.items[i].source) = v})

\* a list of two fields with modifiers, expanded by anon! and run
C1_Witness ==
    /\ Ran /\ macro = "anon"
    /\ \E i \in GivenLists :
          /\ Len(given.items[i].fields) >= 2
          /\ given.items[i].fields[2].f.modifier.kind = "CloneInto"
          /\ Evaluations(SourceVar(given.items[i].source)) = 1

\* the value of an argument of assert_fields_eq!, and the listed fields
ArgVal(e) == given.vals[SourceVar(e)]
Listed == Range(given.fields)
EqualAt(F) == \A f \in F : ArgVal(given.left)[f] = ArgVal(given.right)[f]
AssertCompiled == pc = "done" /\ run.status \in {"ok", "panic"}

\* C2: an assert_fields_eq! over two values and a field list that compiles
\* succeeds exactly when the two values are equal at every listed field,
\* whatever their other fields hold; when it fails, the two values shown are
\* made of the listed fields only, each with the value it has in its side.
C2_AssertComparesListedFields ==
    AssertCompiled =>
        /\ run.status = "ok" <=> EqualAt(Listed)
        /\ run.status = "panic" =>
              /\ DOMAIN run.shown[1] = Listed /\ DOMAIN run.shown[2] = Listed
              /\ \A f \in Listed : /\ run.shown[1][f] = ArgVal(given.left)[f]
                                   /\ run.shown[2][f] = ArgVal(given.right)[f]

\* left.a = right.a, left.b # right.b, [a, b] listed and c differing: fails
C2_Witness ==
    /\ pc = "done" /\ run.status = "panic" /\ macro = "assert_fields_eq"
    /\ given.fields = <<"a", "b">>
    /\ EqualAt({"a"}) /\ ~EqualAt({"b"}) /\ ~EqualAt({"c"})
    /\ DOMAIN run.shown[1] = {"a", "b"}

\* a final-spread item that is not the last thing written: another item or
\* a comma follows it
FinalMisplaced == \E i \in GivenFinals : i < Len(given.items) \/ given.trailing

\* C3: spread! rejects every item list in which ..expr comes before another
\* item, comes twice or is followed by a comma; when it accepts a list with
\* ..expr, that item is the last one, no comma follows it and it is the
\* base expression of the struct literal.
C3_FinalSpreadOnlyLast ==
    (macro = "spread" /\ pc = "done") =>
        /\ FinalMisplaced => (~ast.ok /\ run.status = "compile_error")
        /\ (Ran /\ GivenFinals # {}) =>
              /\ GivenFinals = {Len(given.items)} /\ ~given.trailing
              /\ run.rest = given.items[Len(given.items)].source

\* a, ..r, b: the final-spread before another item, rejected
C3_Witness ==
    /\ macro = "spread" /\ pc = "done" /\ ~ast.ok
    /\ Len(given.items) = 3
    /\ given.items[2].t = "FinalSpread" /\ given.items[3].t = "Field"
    /\ given.items[1].t = "Field"

\* the fields written, the members of spread-lists counted one by one, in
\* the order written
GivenFlat ==
    Concat([i \in 1..Len(given.items) |->
        [j \in 1..Len(given.items[i].fields) |->
            [t |-> given.items[i].t, item |-> i, f |-> given.items[i].fields[j].f]]])

\* the variables and literals an expression is made of
Atoms(toks) == LET r == EvalExpr(toks, <<>>, 1) IN [k \in 1..Len(r) |-> r[k].tok]

\* what a field written on its own is assigned from
WrittenSource(f) == IF f.value = NoValue THEN <<f.name>> ELSE f.value

\* C4: for an accepted item list of N fields (the members of its non-empty
\* spread-lists counted one by one) and no final-spread, the literal of the
\* expansion is made of exactly N assignments, named like the fields in the
\* order written, and nothing else; in the literal anon! builds, a field
\* written alone is assigned from the variable of its name, or from its
\* value when it has one.
C4_LiteralAssignsEachField ==
    (macro \in {"anon", "spread"} /\ pc = "done" /\ ast.ok
        /\ ListsNonEmpty /\ GivenFinals = {}) =>
        /\ run.status = "ok"
        /\ run.rest = <<>>
        /\ Len(run.lit) = Len(GivenFlat)
        /\ \A k \in 1..Len(GivenFlat) :
              /\ run.lit[k].name = GivenFlat[k].f.name
              /\ (macro = "anon" /\ GivenFlat[k].t = "Field") =>
                    Atoms(run.lit[k].value) = Atoms(WrittenSource(GivenFlat[k].f))

\* a, b: v and a spread-list of two fields: four assignments
C4_Witness ==
    /\ macro = "anon" /\ Ran
    /\ Len(given.items) = 3 /\ Len(run.lit) = 4
    /\ given.items[1] = GivenField(Plain("a"))
    /\ given.items[2].t = "Field" /\ given.items[2].fields[1].f.value = <<"v">>
    /\ run.lit[1].value = <<"a">> /\ run.lit[2].value = <<"v">>

\* the value the expansion gives the k-th field written: the assignment of
\* the literal, or the binding
Emitted(k) == IF macro = "anon" THEN run.lit[k].value ELSE run.lets[k].value

\* the renderings the modifiers are documented with
Rendered(kind, path, e) ==
    CASE kind = "None" -> e
      [] kind = "Ref" -> <<"&">> \o e
      [] kind = "RefMut" -> <<"&", "mut">> \o e
      [] kind = "Into" -> e \o <<".", "into", "(", ")">>
      [] kind = "Clone" -> e \o <<".", "clone", "(", ")">>
      [] kind = "Custom" -> <<path, "(">> \o e \o <<")">>
      [] kind = "CustomRef" -> <<path, "(", "&">> \o e \o <<")">>
      [] kind = "CustomRefMut" -> <<path, "(", "&", "mut">> \o e \o <<")">>

\* the source expressions the k-th field written may be rendered from: what
\* was written for a field on its own, binding.name for a list member
SourcesOf(k) ==
    IF GivenFlat[k].t = "Field" THEN {WrittenSource(GivenFlat[k].f)}
    ELSE {<<Emitted(k)[i], ".", GivenFlat[k].f.name>> : i \in 1..Len(Emitted(k))}

Occurrences(e, toks) ==
    Cardinality({i \in 1..(Len(toks) + 1 - Len(e)) : SubSeq(toks, i, i + Len(e) - 1) = e})

\* the methods called in an expression, in order
Calls(toks) ==
    LET is == {i \in 2..(Len(toks) - 1) : toks[i - 1] = "." /\ toks[i + 1] = "("}
        names == SelectSeq([i \in 1..Len(toks) |-> IF i \in is THEN toks[i] ELSE ""],
                           LAMBDA t : t # "")
    IN  names

Expanded == macro \in {"anon", "slet"} /\ Ran /\ Len(GivenFlat) > 0

\* C5: a field with the CloneInto modifier is rendered as its source
\* expression e followed by .clone() and then .into(): the rendering of Into
\* applied to the rendering of Clone of e, and never the reverse.
C5_CloneIntoClonesFirst ==
    Expanded =>
        \A k \in 1..Len(GivenFlat) :
            GivenFlat[k].f.modifier.kind = "CloneInto" =>
                /\ \E e \in SourcesOf(k) :
                      /\ Emitted(k) = Rendered("Into", NoPath, Rendered("Clone", NoPath, e))
                      /\ Emitted(k) # Rendered("Clone", NoPath, Rendered("Into", NoPath, e))
                /\ Calls(Emitted(k)) = <<"clone", "into">>

\* +>a: &v in slet!
C5_Witness ==
    /\ macro = "slet" /\ Ran /\ Len(GivenFlat) = 1
    /\ GivenFlat[1].f.modifier.kind = "CloneInto" /\ GivenFlat[1].f.value = <<"&", "v">>
    /\ run.lets[1].value = <<"&", "v", ".", "clone", "(", ")", ".", "into", "(", ")">>

\* C6: a field with any other modifier is rendered from its source
\* expression e as documented (none: e, Ref: &e, RefMut: &mut e, Into:
\* e.into(), Clone: e.clone(), Custom: p(e), CustomRef: p(&e), CustomRefMut:
\* p(&mut e)) and e occurs exactly once in the rendering.
C6_ModifierRendering ==
    Expanded =>
        \A k \in 1..Len(GivenFlat) :
            GivenFlat[k].f.modifier.kind # "CloneInto" =>
                \E e \in SourcesOf(k) :
                    /\ Emitted(k) = Rendered(GivenFlat[k].f.modifier.kind,
                                             GivenFlat[k].f.modifier.path, e)
                    /\ Occurrences(e, Emitted(k)) = 1

\* {[f]& a, [f]&mut b} in s1, in anon!
C6_Witness ==
    /\ macro = "anon" /\ Ran /\ Len(GivenFlat) = 2 /\ GivenFlat[1].t = "SpreadList"
    /\ GivenFlat[1].f.modifier.kind = "CustomRef"
    /\ GivenFlat[2].f.modifier.kind = "CustomRefMut"
    /\ run.lit[1].value = <<"f", "(", "&", "__a_b", ".", "a", ")">>
    /\ run.lit[2].value = <<"f", "(", "&", "mut", "__a_b", ".", "b", ")">>

\* the reads of the k-th assignment of the literal
Reads(k) == run.lit[k].reads

\* C7: in one invocation of anon!, every field drawn from a spread-list is
\* read from the binding of that list's own source expression, never from
\* the source of another spread-list of the invocation.
C7_ListsReadOwnSource ==
    (macro = "anon" /\ Ran /\ ListsNonEmpty) =>
        \A k \in 1..Len(GivenFlat) :
            GivenFlat[k].t = "SpreadList" =>
                \A i \in 1..Len(Reads(k)) :
                    /\ Reads(k)[i].den.kind = "local"
                    /\ Reads(k)[i].den.of = given.items[GivenFlat[k].item].source

\* C8: in one invocation of anon!, every variable named in a value
\* expression the caller wrote denotes the caller's variable, also when it
\* is spelled like the binding synthesized for a spread-list.
C8_ValuesDenoteCallerVariables ==
    (macro = "anon" /\ Ran /\ ListsNonEmpty) =>
        \A k \in 1..Len(GivenFlat) :
            GivenFlat[k].t = "Field" =>
                \A i \in 1..Len(Reads(k)) : Reads(k)[i].den.kind = "outer"

\* the fields declared for the struct: the written ones with a type (the
\* receiver has none)
Declared == SelectSeq(given.fields, LAMBDA f : f.type_ # NoType)
WithDefault == {i \in 1..Len(Declared) : Declared[i].value # NoValue}
MixedDefaults == WithDefault # {} /\ WithDefault # 1..Len(Declared)
MixedMessage == "Fields must either all have values ('= value') or none have"

\* the receiver is written at most once, in first position, and without a
\* modifier its own parse refuses
ReceiverInPlace ==
    /\ \A i \in 2..Len(given.fields) : given.fields[i].type_ # NoType
    /\ \A i \in 1..Len(given.fields) :
          given.fields[i].type_ = NoType => given.fields[i].name = "self"
    /\ \A i \in 1..Len(given.fields) :
          given.fields[i].type_ = NoType =>
              given.fields[i].modifier.kind \notin {"Into", "Clone", "CloneInto"}

\* C9: fn_struct! fails to parse whenever one declared field has a default
\* value and another has none, with the error of that check when nothing
\* before it fails; when all declared fields have a default or none has, that
\* error is not raised.
C9_MixedDefaultsRejected ==
    (macro = "fn_struct" /\ pc = "done") =>
        /\ MixedDefaults => ~ast.ok
        /\ (MixedDefaults /\ ReceiverInPlace) => (~ast.ok /\ ast.val.msg = MixedMessage)
        /\ ~MixedDefaults => (ast.ok \/ ast.val.msg # MixedMessage)

\* self, one: u32 = 1, &two: u32 is rejected by the check of the values
C9_Witness ==
    /\ macro = "fn_struct" /\ pc = "done"
    /\ Len(given.fields) = 3 /\ given.fields[1].name = "self"
    /\ given.fields[2].value # NoValue /\ given.fields[3].type_ # NoType
    /\ given.fields[3].value = NoValue
    /\ ~ast.ok /\ ast.val.msg = MixedMessage

\* the generated items were read
Generated == macro = "fn_struct" /\ pc = "done" /\ ast.ok /\ run.status = "ok"

\* C10 as claimed: a Default implementation is generated exactly when every
\* field of the struct has a default value.
C10_DefaultWhenEveryFieldHasOne ==
    Generated => (run.has_default <=> WithDefault = 1..Len(Declared))

\* C10: a Default implementation is generated exactly when the struct has at
\* least one field and every field has a default value; it initialises every
\* field of the struct, in the order declared, with the default expression
\* as written, whatever the modifier of the field.
C10_DefaultImplementation ==
    Generated =>
        /\ run.has_default <=> (Declared # <<>> /\ WithDefault = 1..Len(Declared))
        /\ run.has_default =>
              /\ Len(run.defaults) = Len(Declared)
              /\ \A i \in 1..Len(Declared) :
                    /\ run.defaults[i].name = Declared[i].name
                    /\ run.defaults[i].value = Declared[i].value
                    /\ run.fields[i].name = Declared[i].name

\* &mut self, &two: u32 = 2, +>c: &String = &v: Default with two: 2, c: &v
C10_Witness ==
    /\ Generated /\ run.has_default
    /\ Len(given.fields) = 3 /\ given.fields[1].name = "self"
    /\ given.fields[2].modifier.kind = "Ref" /\ given.fields[3].modifier.kind = "CloneInto"
    /\ run.defaults = <<[name |-> "two", value |-> <<"2">>],
                        [name |-> "c", value |-> <<"&", "v">>]>>

\* the positions where the receiver is written, and the modifiers fn_struct
\* takes before it
Receivers == {i \in 1..Len(given.fields) : given.fields[i].name = "self"}
ReceiverModifiers == {"None", "Ref", "RefMut"}
ReceiverMessage == "only '&', '&mut' or no modifier is allows before 'self'"

\* C11 as claimed: an invocation of fn_struct! where self is written with a
\* modifier other than none, & or &mut does not parse.
C11_ModifiedReceiverRejectedAtParse ==
    (macro = "fn_struct" /\ pc = "done") =>
        ((\E i \in Receivers : given.fields[i].modifier.kind \notin ReceiverModifiers)
            => ~ast.ok)

\* every written field parses on its own: a receiver takes no modifier that
\* its parse refuses, and every other field has its type
FieldsParse ==
    \A i \in 1..Len(given.fields) :
        IF given.fields[i].name = "self"
        THEN given.fields[i].modifier.kind \notin {"Into", "Clone", "CloneInto"}
        ELSE given.fields[i].type_ # NoType
OtherSelfMessage == "'self' is only allowed once in first position"

\* C12: fn_struct! accepts the receiver self only as the first written field.
\* An invocation where self is written at a later position, or more than
\* once, does not parse and expands to the error alone; when every field
\* parses on its own the error is the one of the check of the receiver, at
\* the misplaced self. A field other than self written without its type does
\* not parse either.
C12_ReceiverOnlyFirst ==
    (macro = "fn_struct" /\ pc = "done") =>
        /\ (Receivers \ {1} # {}) =>
              (~ast.ok /\ Head(code) = "compile_error" /\ run.status = "compile_error")
        /\ (Receivers \ {1} # {} /\ FieldsParse) =>
              (~ast.ok /\ ast.val = [msg |-> OtherSelfMessage, span |-> "self"])
        /\ (\E i \in 1..Len(given.fields) :
               given.fields[i].name # "self" /\ given.fields[i].type_ = NoType) => ~ast.ok
        /\ ast.ok => (Receivers \subseteq {1} /\ (ast.val.has_self <=> Receivers = {1}))

\* one: u32, &self and self, &mut self are refused by the check of the receiver
C12_Witness ==
    /\ macro = "fn_struct" /\ pc = "done"
    /\ Len(given.fields) = 2 /\ given.fields[2].name = "self"
    /\ given.fields[2].modifier.kind \in {"Ref", "RefMut"}
    /\ ~ast.ok /\ ast.val.msg = OtherSelfMessage

\* C13: when fn_struct! is given a receiver, the fields of the generated
\* struct are the written fields other than the receiver, in the order
\* written, each with its name and its type; no field of the struct stands
\* for the receiver.
C13_StoredFieldsAreDeclaredFields ==
    (Generated /\ Receivers # {}) =>
        /\ run.fields = [i \in 1..Len(Declared) |->
                            [name |-> Declared[i].name, value |-> Declared[i].type_]]
        /\ Len(run.fields) = Len(given.fields) - 1
        /\ \A i \in 1..Len(run.fields) : run.fields[i].name \notin {"self", "__self"}

\* &self, +>c: &String = &v, &two: u32 = 2 gives struct Args { c: &String, two: u32 }
C13_Witness ==
    /\ Generated /\ Receivers = {1}
    /\ Len(given.fields) = 3 /\ given.fields[2].name = "c" /\ given.fields[3].name = "two"
    /\ run.fields = <<[name |-> "c", value |-> <<"&", "String">>],
                      [name |-> "two", value |-> <<"u32">>]>>

\* a modifier applied to an expression, as written in Rust
Applied(m, e) ==
    IF m.kind = "CloneInto" THEN e \o <<".", "clone", "(", ")", ".", "into", "(", ")">>
    ELSE Rendered(m.kind, m.path, e)

\* C14: the call method generated by fn_struct! calls the path that was
\* given, with the receiver __self first when a receiver was written, then
\* one argument for each field of the struct in the order written: the
\* modifier of the field applied to self.name.
C14_CallForwardsReceiverThenFields ==
    Generated =>
        /\ run.path = given.header.path
        /\ run.args = (IF Receivers # {} THEN << <<"__self">> >> ELSE <<>>)
                      \o [i \in 1..Len(Declared) |->
                             Applied(Declared[i].modifier, <<"self", ".", Declared[i].name>>)]

\* &mut self, [&f] d: u32, &two: u32 calls T::m(__self, f(&self.d), &self.two)
C14_Witness ==
    /\ Generated /\ Receivers = {1} /\ given.fields[1].modifier.kind = "RefMut"
    /\ Len(given.fields) = 3 /\ given.fields[2].name = "d" /\ given.fields[3].name = "two"
    /\ run.path = <<"T", "::", "m">>
    /\ run.args = << <<"__self">>,
                     <<"f", "(", "&", "self", ".", "d", ")">>,
                     <<"&", "self", ".", "two">> >>

NotMethodMessage == "Cannot use 'self' with a function that is not a method"

\* C15 as claimed: when fn_struct! is given a receiver and a path of a single
\* segment, its expansion is the error that self is used with a function
\* that is not a method, and holds no struct.
C15_ReceiverOfFreeFunctionRejected ==
    (/\ macro = "fn_struct" /\ pc = "done" /\ ast.ok
     /\ Receivers = {1} /\ given.fields[1].modifier.kind \in ReceiverModifiers
     /\ Len(given.header.path) = 1) =>
        /\ code = CompileError(NotMethodMessage)
        /\ FindTop(code, "struct") = 0

EmptyListMessage == "'Fields list cannot be empty"

\* C16: assert_fields_eq! with a field list refuses the empty list []: the
\* invocation does not parse and expands to the error alone, in the
\* procedural macro with the error of the empty list at the brackets, in the
\* macro_rules one because no rule matches. Every accepted invocation lists
\* at least one field, and the parsed list is the written one.
C16_EmptyListRejected ==
    (macro \in AssertMacros /\ pc = "done") =>
        /\ given.fields = <<>> =>
              (~ast.ok /\ Head(code) = "compile_error" /\ run.status = "compile_error")
        /\ (macro = "assert_fields_eq" /\ given.fields = <<>> /\ ~given.trailing
            /\ PeekIdent(given.right)) =>
              (~ast.ok /\ ast.val = [msg |-> EmptyListMessage, span |-> "[]"])
        /\ ast.ok => (Len(ast.val.fields) >= 1 /\ ast.val.fields = given.fields)

\* l, r, [] given to the procedural macro
C16_Witness ==
    /\ macro = "assert_fields_eq" /\ pc = "done"
    /\ given.fields = <<>> /\ given.left = <<"l">> /\ given.right = <<"r">>
    /\ ~ast.ok /\ ast.val.msg = EmptyListMessage
    /\ code = CompileError(EmptyListMessage)

FinalMessage == "'..remaining' is not allowed in this macro"

\* the items the macro parsed
ParsedItems == IF macro = "assert_fields_eq" THEN ast.val.anon ELSE ast.val

\* C17: anon!, slet! and assert_fields_eq!(left, { items }) refuse every
\* item list that holds a final-spread item ..expr, wherever it stands: the
\* invocation does not parse, the error is the one of the final spread at the
\* .. token, and the expansion is that error alone. An accepted invocation
\* was written without final spread and none is among its parsed items.
C17_FinalSpreadRejected ==
    (macro \in ItemMacros /\ pc = "done") =>
        /\ GivenFinals # {} =>
              /\ ~ast.ok /\ ast.val = [msg |-> FinalMessage, span |-> ".."]
              /\ code = CompileError(FinalMessage)
              /\ run.status = "compile_error"
        /\ ast.ok =>
              /\ GivenFinals = {}
              /\ \A i \in 1..Len(ParsedItems) : ParsedItems[i].t # "FinalSpread"

\* assert_fields_eq!(l, { a: 1, ..r }): the final spread after a field
C17_Witness ==
    /\ macro = "assert_fields_eq" /\ pc = "done"
    /\ Len(given.items) = 2 /\ given.items[1].t = "Field" /\ GivenFinals = {2}
    /\ ~ast.ok /\ ast.val.span = ".."
    /\ code = CompileError(FinalMessage)

\* a field written with the mut prefix, as an item or inside a spread-list
GivenMut ==
    \E i \in 1..Len(given.items) :
        \E k \in 1..Len(given.items[i].fields) : given.items[i].fields[k].f.is_mut
MutMessage == "'mut' prefix is not allowed in this macro"

\* C18: anon!, and assert_fields_eq! for its anonymous value, refuse every
\* item list in which a field has the mut prefix, be the field an item of
\* its own or a member of a spread-list: the invocation does not parse and
\* expands to the error alone; the error is the one of the mut prefix, at
\* the mut token, when no final spread is refused first. No field of an
\* accepted invocation is mutable.
C18_MutRejectedByAnon ==
    (macro \in {"anon", "assert_fields_eq"} /\ pc = "done") =>
        /\ GivenMut =>
              /\ ~ast.ok /\ code = CompileError(ast.val.msg)
              /\ run.status = "compile_error"
        /\ (GivenMut /\ GivenFinals = {}) =>
              (~ast.ok /\ ast.val = [msg |-> MutMessage, span |-> "mut"])
        /\ ast.ok =>
              /\ ~GivenMut
              /\ \A i \in 1..Len(ParsedItems) : ~HasMut(ParsedItems[i])

\* anon! { { mut a } in s1 }: the mut prefix inside a spread-list
C18_Witness ==
    /\ macro = "anon" /\ pc = "done"
    /\ Len(given.items) = 1 /\ given.items[1].t = "SpreadList"
    /\ Len(given.items[1].fields) = 1 /\ given.items[1].fields[1].f.is_mut
    /\ ~ast.ok /\ ast.val = [msg |-> MutMessage, span |-> "mut"]

\* the binding statement expected for a field written as an item
FieldLet(f) ==
    <<"let">> \o (IF f.is_mut THEN <<"mut">> ELSE <<>>) \o <<f.name, "=">>
    \o Applied(f.modifier, WrittenSource(f)) \o <<";">>

C20_EmptySpreadListRejected ==
    (macro \in {"anon", "slet"} /\ pc = "done") =>
        ((\E i \in GivenLists : given.items[i].fields = <<>>) => ~ast.ok)

\* the macro found an error: its parse failed, or an error is among the
\* tokens it returned
Diagnosed ==
    /\ pc \in {"expanded", "done"}
    /\ ~ast.ok \/ \E i \in 1..Len(code) : code[i] \in {"compile_error", "panicked"}

AnonBlock == Group(code, "{", "}").val
AnonParams == Entries(SubSeq(AnonBlock, 5, FindTop(AnonBlock, ">") - 1))
AnonDeclared == Entries(Group(Drop(AnonBlock, FindTop(AnonBlock, ">")), "{", "}").val)
AnonLiteral ==
    Entries(Group(Drop(AnonBlock, Len(AnonBlock) - Len(Group(Drop(AnonBlock, FindTop(AnonBlock, ">")), "{", "}").rest)
                                  + FindTop(Group(Drop(AnonBlock, FindTop(AnonBlock, ">")), "{", "}").rest, "Anon")),
                  "{", "}").val)

\* C22: the struct anon! declares has one type parameter per field, all
\* different; its fields are the names written, the members of spread-lists
\* one by one, in the order written; the i-th field has the i-th parameter as
\* its type; the literal has as many fields as there are parameters.
C22_OneTypeParameterPerField ==
    macro = "anon" /\ pc \in {"expanded", "done"} /\ ast.ok =>
        /\ SubSeq(AnonBlock, 2, 4) = <<"struct", "Anon", "<">>
        /\ Len(AnonParams) = Len(GivenFlat)
        /\ \A i \in 1..Len(AnonParams) : Len(AnonParams[i]) = 1
        /\ \A i, j \in 1..Len(AnonParams) : AnonParams[i] = AnonParams[j] => i = j
        /\ Len(AnonDeclared) = Len(GivenFlat)
        /\ \A i \in 1..Len(AnonDeclared) :
              AnonDeclared[i] = <<GivenFlat[i].f.name, ":", AnonParams[i][1]>>
        /\ Len(AnonLiteral) = Len(AnonParams)

\* anon!{ x: __a_b, { a, &b } in s2 }: a field, then a spread-list of two
C22_Witness ==
    /\ macro = "anon" /\ Ran
    /\ Len(given.items) = 2 /\ given.items[1].t = "Field"
    /\ given.items[2].t = "SpreadList" /\ Len(given.items[2].fields) = 2
    /\ Len(AnonParams) = 3

\* let [mut] n = n.clone();
CloneLet(n) ==
    <<"let">> \o (IF n.is_mut THEN <<"mut">> ELSE <<>>)
    \o <<n.name, "=", n.name, ".", "clone", "(", ")", ";">>

\* C23: clone!(n1, .., nk), each name with or without mut, expands to k
\* bindings and nothing else, the i-th being let [mut] ni = ni.clone(); with
\* mut exactly when the i-th name was written with mut; run, they bind the k
\* names in input order, each to the clone of the variable of that name;
\* clone!() expands to nothing.
C23_CloneBindsEachName ==
    macro = "clone" /\ ~given.trailing /\ pc \in {"expanded", "done"} =>
        /\ ast.ok
        /\ code = Concat([i \in 1..Len(given.names) |-> CloneLet(given.names[i])])
        /\ given.names = <<>> => code = <<>>
        /\ pc = "done" =>
              /\ run.status = "ok"
              /\ Len(run.lets) = Len(given.names)
              /\ \A i \in 1..Len(run.lets) :
                    /\ run.lets[i].name = given.names[i].name
                    /\ run.lets[i].is_mut = given.names[i].is_mut
                    /\ run.lets[i].value = <<given.names[i].name, ".", "clone", "(", ")">>

\* clone!(s1, mut s2, v) has run
C23_Witness ==
    /\ macro = "clone" /\ pc = "done" /\ ~given.trailing
    /\ Len(given.names) = 3
    /\ ~given.names[1].is_mut /\ given.names[2].is_mut
    /\ Len(run.lets) = 3 /\ run.lets[2].is_mut

\* the receiver parameter of the generated call method: the tokens from
\* __self to the comma that ends it
ReceiverParam ==
    SubSeq(code, IndexOf(code, "__self"),
           IndexOf(code, "__self") + IndexOf(Drop(code, IndexOf(code, "__self")), ",") - 1)

\* the type the callable path is based on: the type between < and as when
\* the path is qualified, or else the path without :: and its last segment
BaseType ==
    IF Head(given.header.path) = "<"
    THEN SubSeq(given.header.path, 2, IndexOf(given.header.path, "as") - 1)
    ELSE SubSeq(given.header.path, 1, Len(given.header.path) - 2)

\* C24: when fn_struct! generates for a receiver, the parameter of call that
\* takes it is __self, typed by the & or &mut written before self followed by
\* the self type of the path when the path is qualified, and otherwise by the
\* path without its last segment.
C24_ReceiverType ==
    (/\ macro = "fn_struct" /\ pc \in {"expanded", "done"} /\ ast.ok
     /\ Receivers = {1} /\ given.fields[1].modifier.kind \in ReceiverModifiers) =>
        /\ IndexOf(code, "__self") > IndexOf(code, "call")
        /\ ReceiverParam = <<"__self", ":">> \o ModToks(given.fields[1].modifier) \o BaseType

\* fn_struct!(Args for fn <T as Tr>::m(&mut self, ..) -> u32) is compiled:
\* call takes __self: &mut T
C24_Witness ==
    /\ Generated /\ Receivers = {1} /\ given.fields[1].modifier.kind = "RefMut"
    /\ Head(given.header.path) = "<"
    /\ run.params[2] = <<"__self", ":", "&", "mut", "T">>
    /\ run.path = <<"<", "T", "as", "Tr", ">", "::", "m">>

\* C25 as claimed: the procedural assert_fields_eq! given left, a second
\* argument that is an expression and not a brace group, and a bracketed list
\* of at least one field, parses it as the list form with that expression as
\* right.
C25_AnyExpressionAccepted ==
    (macro = "assert_fields_eq" /\ pc = "done" /\ given.fields # <<>>) =>
        /\ ast.ok
        /\ ast.val.t = "List" /\ ast.val.right = given.right /\ ast.val.fields = given.fields

\* the spread-lists written, in input order
ListsWritten == SelectSeq(given.items, LAMBDA it : it.t = "SpreadList")

\* the variables and literals the run evaluated, in order
Evaluated == [k \in 1..Len(run.trace) |-> run.trace[k].tok]

\* C26: when the code anon! generated runs, the first evaluations are those
\* of the sources of the spread-lists, one for each list in input order and
\* each the caller's variable; the values of the fields of the literal are
\* evaluated after them, in the order of the literal, also when a field with
\* a value is written before a spread-list.
C26_SourcesBeforeFieldValues ==
    (macro = "anon" /\ Ran) =>
        /\ Len(run.trace) >= Len(ListsWritten)
        /\ \A k \in 1..Len(ListsWritten) :
              /\ run.trace[k].tok = SourceVar(ListsWritten[k].source)
              /\ run.trace[k].den.kind = "outer"
        /\ SubSeq(Evaluated, Len(ListsWritten) + 1, Len(Evaluated))
              = Concat([k \in 1..Len(run.lit) |-> Atoms(run.lit[k].value)])

\* anon!{ x: __a_b, { a_b } in s1, { a, &b } in s2 }: s1, then s2, then the
\* value of x
C26_Witness ==
    /\ macro = "anon" /\ Ran /\ Len(given.items) = 3
    /\ given.items[1].t = "Field" /\ given.items[1].fields[1].f.value # NoValue
    /\ given.items[2].t = "SpreadList" /\ given.items[3].t = "SpreadList"
    /\ SubSeq(Evaluated, 1, 3) = <<"s1", "s2", "__a_b">>

\* the members of spread-lists that were written with a value
ValuedMembers ==
    {k \in 1..Len(GivenFlat) : GivenFlat[k].t = "SpreadList" /\ GivenFlat[k].f.value # NoValue}

\* the names the source of the list of the k-th field written is bound to
\* when the member is read: the binding anon! makes for the list, __source
\* in slet!
BoundSources(k) ==
    IF macro = "slet" THEN {"__source"}
    ELSE {run.lets[i].name : i \in {j \in 1..Len(run.lets) :
              run.lets[j].value = given.items[GivenFlat[k].item].source}}

\* C27: anon! and slet! accept a member of a spread-list written with a
\* value, and drop the value: the member is read from the bound source, with
\* its modifier applied to source.name, the tokens of the value are not in
\* the expansion and the value is not evaluated.
C27_MemberValueDropped ==
    (macro \in {"anon", "slet"} /\ pc = "done") =>
        \A k \in ValuedMembers :
            /\ ast.ok /\ run.status = "ok"
            /\ \E b \in BoundSources(k) :
                  Emitted(k) = Applied(GivenFlat[k].f.modifier, <<b, ".", GivenFlat[k].f.name>>)
            /\ Occurrences(GivenFlat[k].f.value, input) = 1
            /\ Occurrences(GivenFlat[k].f.value, code) = 0
            /\ \A j \in 1..Len(run.trace) : <<run.trace[j].tok>> # GivenFlat[k].f.value

\* slet!{ { &a: 5, b } in s2 }: a is bound to &__source.a
C27_Witness ==
    /\ macro = "slet" /\ Ran /\ ValuedMembers = {1} /\ Len(GivenFlat) = 2
    /\ GivenFlat[1].f.value = <<"5">>
    /\ run.lets[1].value = <<"&", "__source", ".", "a">>

\* C28: the unreachable branches of Anon::expand and of the anonymous-value
\* arm of assert_fields_eq! are never run: no expansion of anon! or
\* assert_fields_eq! holds their panic, and the items that reach the
\* expansion, those Anon::parse accepted, hold no final spread.
C28_UnreachableNeverRuns ==
    (macro \in {"anon", "assert_fields_eq"} /\ pc \in {"expanded", "done"}) =>
        /\ \A i \in 1..Len(code) : code[i] # "panicked"
        /\ ast.ok =>
              /\ Head(code) = "{"
              /\ \A i \in 1..Len(ParsedItems) : ParsedItems[i].t \in {"Field", "SpreadList"}

\* anon!{ a, ..r, b: v }: the final spread is refused by the parse and the
\* expansion is not run
C28_Witness ==
    /\ macro = "anon" /\ pc = "expanded" /\ Len(given.items) = 3 /\ GivenFinals = {2}
    /\ ~ast.ok /\ code = CompileError(FinalMessage)

\* the generated assertion ran to its end, passing or failing
AssertRan ==
    /\ macro \in AssertMacros /\ pc = "done" /\ ast.ok
    /\ run.status \in {"ok", "panic"}

\* the lets that build the two values compared read the macro's own
\* bindings and nothing of the caller
ReadsOnlyBindings(e) == Head(e.expr) = "Fields" /\ e.outer = {}

\* C29: the assertion assert_fields_eq! generates evaluates the left
\* expression once and the right expression, or the anonymous value, once,
\* whatever the number of fields: every other statement reads the bindings
\* made of them. With a field list, left is evaluated first and right after
\* the left fields are taken; with an anonymous value, the value is built
\* first and left is evaluated after it.
C29_EachSideEvaluatedOnce ==
    AssertRan =>
        /\ ast.val.t = "List" =>
              /\ Len(run.evals) = 4
              /\ run.evals[1].expr = <<"&">> \o given.left
              /\ ReadsOnlyBindings(run.evals[2])
              /\ run.evals[3].expr = <<"&">> \o given.right
              /\ ReadsOnlyBindings(run.evals[4])
        /\ ast.val.t = "Anon" =>
              /\ Len(run.evals) = 5
              /\ Head(run.evals[1].expr) = "{"
              /\ Occurrences(<<"Anon", "{">>, run.evals[1].expr) = 1
              /\ run.evals[2].expr = <<"&">> \o given.left
              /\ ReadsOnlyBindings(run.evals[3])
              /\ run.evals[4].expr = <<"&", run.evals[1].name>> /\ run.evals[4].outer = {}
              /\ ReadsOnlyBindings(run.evals[5])

\* assert_fields_eq!(l, r, [a, b]) of the procedural macro has run: four
\* bindings for two fields, l read by the first and r by the third
C29_Witness ==
    /\ AssertRan /\ macro = "assert_fields_eq" /\ ast.val.t = "List"
    /\ Len(given.fields) = 2
    /\ run.evals[1].outer = {"l"} /\ run.evals[3].outer = {"r"}

\* spread!(S { [#[clone]] { [#[clone]] f1, .., [#[clone]] fn } in source, })
\* with n >= 1 has been expanded and its expansion met by the compiler
SpreadOfOneList ==
    /\ macro = "spread" /\ pc = "done" /\ given.trailing
    /\ Len(given.items) = 1 /\ given.items[1].t = "SpreadList"
    /\ Len(given.items[1].fields) >= 1
    /\ \A i \in 1..Len(given.items[1].fields) :
          /\ ~given.items[1].fields[i].f.is_mut
          /\ given.items[1].fields[i].f.modifier = NoMod
          /\ given.items[1].fields[i].f.value = NoValue

\* the recursion ended: the source is bound once, first, and then every
\* listed field once, in list order, from the bound source, cloned exactly
\* when the list or the field is marked
BoundInListOrder ==
    /\ ast.ok /\ run.status = "ok"
    /\ Len(run.lets) = Len(given.items[1].fields) + 1
    /\ run.lets[1].value = given.items[1].source
    /\ \A i \in 1..Len(given.items[1].fields) :
          run.lets[i + 1].value =
              <<run.lets[1].name, ".", given.items[1].fields[i].f.name>>
              \o (IF given.items[1].attr \/ given.items[1].fields[i].attr
                  THEN <<".", "clone", "(", ")">> ELSE <<>>)

\* a field marked in a list that is marked too
MarkedTwice ==
    given.items[1].attr /\ \E i \in 1..Len(given.items[1].fields) : given.items[1].fields[i].attr

\* C30 as claimed: the recursive expansion of a spread-list of n >= 1 fields
\* ends after one step for each field, with the source bound once and every
\* listed field bound once, in list order, cloned exactly when the list or
\* the field is marked with the clone attribute.
C30_RecursionBindsEachField == SpreadOfOneList => BoundInListOrder

====
